---- MODULE Spec2Model ----
(***************************************************************************)
(* The session actor of oai-rt-rs (src/src/sdk/session.rs): one task that  *)
(* owns the connection, handles queued commands and inbound notifications  *)
(* one at a time, keeps the active-response id and the text buffers, and   *)
(* fans results out to five bounded channels.                              *)
(*                                                                         *)
(* Strings that the code concatenates, decodes or compares by content      *)
(* (text, deltas, transcripts, base64 payloads) are sequences of           *)
(* one-character strings; identifiers are plain strings.                   *)
(***************************************************************************)
EXTENDS Integers, Sequences, FiniteSets, TLC

\* ------------------------------------------------------------------ bounds
\* Notifications handed to the actor in one behaviour of each specification.
MaxVoiceNotes == 3
MaxTextNotes == 4
MaxToolNotes == 2
MaxFlowNotes == 2
\* Commands a caller enqueues in one behaviour.
MaxCmds == 1
\* Items a caller reads from the output streams in one behaviour.
MaxReads == 1
\* Notifications and commands in the runs about the command queue.
MaxCmdNotes == 2
MaxQueued == 2
\* Notifications in the runs about the end of the output streams.
MaxEndNotes == 2
\* Notifications and SessionHandle clones in the runs about dropped owners.
MaxDropNotes == 2
MaxHandles == 1
\* Notifications and barge_in calls in the runs about the caller's barge-in.
MaxBargeNotes == 2
MaxBarges == 2
\* Characters of an appended audio payload after its leading full groups.
MaxTail == 4
MaxTools == 1
MaxMcpCalls == 2
MaxSends == 2
MaxDispatches == 2
MaxMapNotes == 2
MaxErrNotes == 3
MaxRunNotes == 2
MaxAskNotes == 2
MaxAsks == 2
MaxSeqNotes == 2
MaxOrderNotes == 2
MaxFailNotes == 2
MaxLockNotes == 2
MaxLockCalls == 1
MaxBufNotes == 3
MaxOrphanNotes == 2
MaxRegistrations == 2
MaxLookups == 1
MaxRemote == 1
\* Free slots left in a pre-filled output channel (the back-pressure runs).
Slack == 1

\* ------------------------------------------------- channel capacities
CmdCap == 64
TextCap == 64
EventCap == 128
VoiceCap == 128
AudioCap == 128
TranscriptCap == 128

Channels == {"text", "event", "voice", "audio", "transcript"}

Cap(ch) ==
  CASE ch = "text" -> TextCap
    [] ch = "event" -> EventCap
    [] ch = "voice" -> VoiceCap
    [] ch = "audio" -> AudioCap
    [] ch = "transcript" -> TranscriptCap

\* ------------------------------------------------------------ values
\* Option::None of the active-response id.
None == "none"
Rids == {"resp_1", "resp_2"}
CallIds == {"call_1", "call_2"}
ItemIds == {"item_1", "item_2"}

\* ----------------------------------------------------- base64 (STANDARD)
B64Alphabet ==
  << "A","B","C","D","E","F","G","H","I","J","K","L","M","N","O","P",
     "Q","R","S","T","U","V","W","X","Y","Z","a","b","c","d","e","f",
     "g","h","i","j","k","l","m","n","o","p","q","r","s","t","u","v",
     "w","x","y","z","0","1","2","3","4","5","6","7","8","9","+","/" >>

IsB64Char(c) == \E i \in 1..64 : B64Alphabet[i] = c

B64Index(c) == (CHOOSE i \in 1..64 : B64Alphabet[i] = c) - 1

\* Trailing "=" characters of s.
RECURSIVE PadCount(_)
PadCount(s) ==
  IF s = <<>> \/ s[Len(s)] # "=" THEN 0
  ELSE 1 + PadCount(SubSeq(s, 1, Len(s) - 1))

\* The three bytes of one group of four sextets.
GroupBytes(a, b, c, d) ==
  LET v == ((a * 64 + b) * 64 + c) * 64 + d
  IN << v \div 65536, (v \div 256) % 256, v % 256 >>

RECURSIVE DecodeGroups(_)
DecodeGroups(s) ==
  IF s = <<>> THEN <<>>
  ELSE GroupBytes(B64Index(s[1]), B64Index(s[2]), B64Index(s[3]), B64Index(s[4]))
         \o DecodeGroups(SubSeq(s, 5, Len(s)))

\* general_purpose::STANDARD.decode: canonical padding, no stray trailing
\* bits.  The result is [ok, bytes].
B64Decode(s) ==
  LET p == PadCount(s)
      body == SubSeq(s, 1, Len(s) - p)
      full == [i \in 1..Len(s) |-> IF i <= Len(body) THEN s[i] ELSE "A"]
      bytes == DecodeGroups(full)
      wellFormed == /\ Len(s) % 4 = 0
                    /\ p <= 2
                    /\ \A i \in 1..Len(body) : IsB64Char(body[i])
      cleanTail == \/ p = 0
                   \/ p = 1 /\ B64Index(body[Len(body)]) % 4 = 0
                   \/ p = 2 /\ B64Index(body[Len(body)]) % 16 = 0
  IN IF wellFormed /\ cleanTail
       THEN [ok |-> TRUE, bytes |-> SubSeq(bytes, 1, Len(bytes) - p)]
       ELSE [ok |-> FALSE, bytes |-> <<>>]

\* ---------------------------------------------------------- state
VARIABLES
  cfg,                 \* auto_barge_in, auto_tool_response, on_tool_call
  active_response_id,  \* Arc<Mutex<Option<String>>>
  buffers,             \* HashMap<(item id, content index), String>
  sent,                \* per output channel: the items pushed so far
  queued,              \* per output channel: items pushed and not yet read
  taken,               \* per output channel: items the caller has read
  outgoing,            \* frames handed to transport.send, with the result
                       \* (at: notifications picked up before the write)
  arrived,             \* notifications the actor has picked up, in order
  pc,                  \* "select" | "blocked" | "exited"
  todo,                \* what is left of the handler the actor is inside
  stalled,             \* notifications whose handler waited for channel space
  cmd_rx,              \* the command queue
  issued,              \* number of commands enqueued so far
  replies,             \* one-shot replies delivered to callers
  ended,               \* output streams on which the caller has read None
  session_alive,       \* the Session (sender and five receivers) exists
  handles,             \* number of SessionHandle clones that exist
  barge,               \* where the caller is inside Session::barge_in
  ask,                 \* where the caller is inside Session::ask
  mutex,               \* the lock on the active-response id: its holder, and
                       \* what the actor and a barge_in caller have left to do
  stream,              \* frames RealtimeClient has written to its WsStream
  returned,            \* what each RealtimeClient::send call returned
  pending,             \* the event a RealtimeClient::send call was given
  mcp,                 \* ToolRegistry.mcp: the remote descriptors stored
  mcp_results,         \* what each ToolRegistry::mcp_tool call returned
  dispatched,          \* what each direct ToolRegistry::dispatch call did
  defs,                \* ToolRegistry.defs: one definition per registration
  handlers,            \* ToolRegistry.handlers: the adapter stored for a name
  inbound,             \* the JSON value about to be decoded
  deserialized,        \* what each decode was given and returned
  serialized           \* the re-encodings of the decoded values, in order

caller_vars == << ended, session_alive, handles, barge, ask, mutex >>
client_vars == << stream, returned, pending >>
registry_vars == << mcp, mcp_results, dispatched, defs, handlers >>
wire_vars == << inbound, deserialized, serialized >>

vars == << cfg, active_response_id, buffers, sent, queued, taken, outgoing,
           arrived, pc, todo, stalled, cmd_rx, issued, replies,
           ended, session_alive, handles, barge, ask, mutex, stream, returned, pending,
           mcp, mcp_results, dispatched, defs, handlers, inbound,
           deserialized,
           serialized >>

Keys == ItemIds \X {0}
NoBuf == << "absent" >>

\* ------------------------------------------------------ notifications
\* Option<T>: the empty sequence is None, a one-element sequence is Some(x).
Nothing == <<>>
Some(x) == << x >>
IsSome(opt) == Len(opt) = 1

ResponseCreated(rid) == [type |-> "ResponseCreated", response_id |-> rid]
ResponseDone(rid) == [type |-> "ResponseDone", response_id |-> rid]
SpeechStarted == [type |-> "InputAudioBufferSpeechStarted", audio_start_ms |-> 0]
SpeechStopped == [type |-> "InputAudioBufferSpeechStopped", audio_end_ms |-> 0]
AudioDelta(rid, d) ==
  [type |-> "ResponseOutputAudioDelta", response_id |-> rid,
   item_id |-> "item_1", output_index |-> 0, content_index |-> 0, delta |-> d]
AudioDone(rid) ==
  [type |-> "ResponseOutputAudioDone", response_id |-> rid,
   item_id |-> "item_1", output_index |-> 0, content_index |-> 0,
   item |-> Nothing]
TranscriptDelta(rid, d) ==
  [type |-> "ResponseOutputAudioTranscriptDelta", response_id |-> rid,
   item_id |-> "item_1", output_index |-> 0, content_index |-> 0, delta |-> d]
TranscriptDone(rid, t) ==
  [type |-> "ResponseOutputAudioTranscriptDone", response_id |-> rid,
   item_id |-> "item_1", output_index |-> 0, content_index |-> 0,
   transcript |-> t]
TextDelta(item, d) ==
  [type |-> "ResponseOutputTextDelta", response_id |-> "resp_1",
   item_id |-> item, output_index |-> 0, content_index |-> 0, delta |-> d]
TextDone(item, t) ==
  [type |-> "ResponseOutputTextDone", response_id |-> "resp_1",
   item_id |-> item, output_index |-> 0, content_index |-> 0, text |-> t]
FunctionCallArgumentsDone(cid, nm, args) ==
  [type |-> "ResponseFunctionCallArgumentsDone", response_id |-> "resp_1",
   item_id |-> "item_1", output_index |-> 0, call_id |-> cid, name |-> nm,
   arguments |-> args]
ErrorEvent ==
  [type |-> "Error", event_id |-> "evt_err",
   error |-> [code |-> "rate_limit_exceeded", message |-> "slow down"]]
ContentPartAdded(rid, part) ==
  [type |-> "ResponseContentPartAdded", response_id |-> rid,
   item_id |-> "item_1", output_index |-> 0, content_index |-> 0, part |-> part]
ContentPartDone(rid, part) ==
  [type |-> "ResponseContentPartDone", response_id |-> rid,
   item_id |-> "item_1", output_index |-> 0, content_index |-> 0, part |-> part]
FunctionCallArgumentsDelta(cid, d) ==
  [type |-> "ResponseFunctionCallArgumentsDelta", response_id |-> "resp_1",
   item_id |-> "item_1", output_index |-> 0, call_id |-> cid, delta |-> d]
InputAudioTranscriptionDelta(item, d) ==
  [type |-> "InputAudioTranscriptionDelta", item_id |-> item,
   content_index |-> 0, delta |-> d]
InputAudioTranscriptionCompleted(item, t, usage) ==
  [type |-> "InputAudioTranscriptionCompleted", item_id |-> item,
   content_index |-> 0, transcript |-> t, usage |-> usage]
InputAudioTranscriptionFailed(item) ==
  [type |-> "InputAudioTranscriptionFailed", item_id |-> item,
   content_index |-> 0]
RateLimitsUpdated == [type |-> "RateLimitsUpdated"]
UnknownEvent == [type |-> "Unknown", raw |-> "future.event"]

GoodAudio == << "A", "Q", "I", "=" >>
BadAudio == << "A", "Q", "=", "I" >>

VoiceNotes ==
  {ResponseCreated(r) : r \in Rids} \cup {ResponseDone(r) : r \in Rids}
    \cup {SpeechStarted, SpeechStopped}
    \cup {AudioDelta(r, GoodAudio) : r \in Rids}
    \cup {AudioDelta("resp_1", BadAudio)}
    \cup {AudioDone(r) : r \in Rids}
    \cup {TranscriptDelta(r, << "h" >>) : r \in Rids}
    \cup {TranscriptDone(r, << "h", "i" >>) : r \in Rids}

TextNotes ==
  {TextDelta(i, << "a" >>) : i \in ItemIds}
    \cup {TextDone(i, t) : i \in ItemIds, t \in {<< "a" >>, << "b" >>}}

ToolNames == {"echo", "nope"}
ArgStrings == {"{\"hello\":\"world\"}", "oops"}
ToolNotes ==
  {FunctionCallArgumentsDone(c, n, a) :
     c \in CallIds, n \in ToolNames, a \in ArgStrings}

\* ------------------------------------------------ steps of a handler
\* A handler is the ordered list of the effects its code performs; the actor
\* runs them in order and suspends only at a push to a full channel.
SetActive(v) == [op |-> "set_active", val |-> v]
Push(ch, item) == [op |-> "push", ch |-> ch, item |-> item]
Write(ev, ok) == [op |-> "write", ev |-> ev, ok |-> ok]
BufAppend(key, d) == [op |-> "buf_append", key |-> key, delta |-> d]
BufRemove(key) == [op |-> "buf_remove", key |-> key]
\* The point where user code runs: the raw-event callback if one is
\* registered ("on_raw_event"), the tool handler or registry ("tool").
Call(what) == [op |-> "call", what |-> what]

\* The active-response id after the steps in ops, starting from a.
RECURSIVE ActiveAfter(_, _)
ActiveAfter(ops, a) ==
  IF ops = <<>> THEN a
  ELSE ActiveAfter(Tail(ops), IF Head(ops).op = "set_active" THEN Head(ops).val ELSE a)

\* ------------------------------------------------------ client events
OutputAudioBufferClear == [type |-> "OutputAudioBufferClear"]
ResponseCancel(rid) == [type |-> "ResponseCancel", response_id |-> rid]
ResponseCreate == [type |-> "ResponseCreate"]
FunctionCallOutput(cid, out) ==
  [type |-> "ConversationItemCreate",
   item |-> [type |-> "FunctionCallOutput", call_id |-> cid, output |-> out]]
UserMessage == [type |-> "ConversationItemCreate", item |-> [type |-> "Message"]]

\* input_audio_buffer.append; the payload is the string made of `groups`
\* times "AAAA" followed by the characters of `tail`.
InputAudioBufferAppend(groups, tail) ==
  [type |-> "InputAudioBufferAppend", audio |-> [groups |-> groups, tail |-> tail]]
NoEvent == [type |-> "none"]

\* ------------------------------------- RealtimeClient::send (lib.rs)
MAX_INPUT_AUDIO_CHUNK_BYTES == 15 * 1024 * 1024

InvalidClientEvent(msg) == [ok |-> FALSE, kind |-> "InvalidClientEvent", msg |-> msg]
WebSocketError == [ok |-> FALSE, kind |-> "WebSocket", msg |-> "send failed"]
Sent == [ok |-> TRUE, kind |-> "Ok", msg |-> ""]

\* The payload as runs of equal bytes, in order.
Runs(audio) ==
  (IF audio.groups > 0 THEN << [ch |-> "A", n |-> 4 * audio.groups] >> ELSE <<>>)
    \o [i \in 1..Len(audio.tail) |-> [ch |-> audio.tail[i], n |-> 1]]

\* bytes.len()
ByteLen(audio) == 4 * audio.groups + Len(audio.tail)

\* The `for &b in bytes` loop, one run of equal bytes at a time: the count
\* of '=' seen, or the error the loop returns with.
RECURSIVE ScanPadding(_, _, _)
ScanPadding(runs, padding, seen_padding) ==
  IF runs = <<>> THEN [err |-> "", padding |-> padding]
  ELSE LET r == Head(runs)
       IN IF r.ch = "="
            THEN ScanPadding(Tail(runs), padding + r.n, TRUE)
          ELSE IF seen_padding
            THEN [err |-> "invalid base64 padding", padding |-> padding]
          ELSE IF ~IsB64Char(r.ch)
            THEN [err |-> "invalid base64 character", padding |-> padding]
          ELSE ScanPadding(Tail(runs), padding, seen_padding)

\* An estimate that forgets to subtract the padding.
estimate_base64_decoded_len_NoPadding(audio) ==
  [ok |-> ByteLen(audio) % 4 = 0, err |-> "", size |-> (ByteLen(audio) \div 4) * 3,
   underflow |-> FALSE]

\* An estimate that accepts '=' anywhere.
estimate_base64_decoded_len_AnyPadding(audio) ==
  LET pads == Cardinality({i \in 1..Len(audio.tail) : audio.tail[i] = "="})
      okay == /\ ByteLen(audio) % 4 = 0
              /\ pads <= 2
              /\ \A i \in 1..Len(audio.tail) :
                   audio.tail[i] = "=" \/ IsB64Char(audio.tail[i])
  IN [ok |-> okay, err |-> "", size |-> (ByteLen(audio) \div 4) * 3 - pads,
      underflow |-> FALSE]

\* estimate_base64_decoded_len: [ok, err, size, underflow].  size is the
\* usize the function returns; underflow tells that the subtraction went
\* below zero (a panic in a checked build, a wrapped value otherwise).
estimate_base64_decoded_len(audio) ==
  IF ByteLen(audio) % 4 # 0
    THEN [ok |-> FALSE, err |-> "invalid base64 length", size |-> 0,
          underflow |-> FALSE]
    ELSE LET scan == ScanPadding(Runs(audio), 0, FALSE)
             raw == (ByteLen(audio) \div 4) * 3 - scan.padding
         IN IF scan.err # ""
              THEN [ok |-> FALSE, err |-> scan.err, size |-> 0, underflow |-> FALSE]
            ELSE IF scan.padding > 2
              THEN [ok |-> FALSE, err |-> "invalid base64 padding length",
                    size |-> 0, underflow |-> FALSE]
            ELSE [ok |-> TRUE, err |-> "", size |-> raw, underflow |-> raw < 0]

\* ------------------------------------ audio formats and tool configs
PCM_24KHZ_RATE == 24000

\* AudioFormat (protocol/models/audio.rs)
Pcm(rate) == [type |-> "audio/pcm", rate |-> rate]
Pcmu == [type |-> "audio/pcmu"]
Pcma == [type |-> "audio/pcma"]

\* AudioFormat::validate
AudioFormat_validate(format) ==
  IF format.type = "audio/pcm" /\ format.rate # PCM_24KHZ_RATE
    THEN InvalidClientEvent("audio/pcm rate must be 24000")
  ELSE Sent

\* McpToolConfig, by its two optional fields that validation reads.
McpToolConfig(server_url, connector_id) ==
  [server_url |-> server_url, connector_id |-> connector_id]

\* A validation that accepts every configuration.
McpToolConfig_validate_Lenient(config) == Sent

\* McpToolConfig::validate
McpToolConfig_validate(config) ==
  IF ~IsSome(config.server_url) /\ ~IsSome(config.connector_id)
    THEN InvalidClientEvent("mcp tool requires server_url or connector_id")
  ELSE Sent

\* Tool
FunctionTool(name) == [type |-> "function", name |-> name]
McpTool(config) == [type |-> "mcp", config |-> config]

\* ContentPart and the items that carry content parts.
InputText == [type |-> "input_text"]
InputAudio(format) == [type |-> "input_audio", format |-> format]
OutputAudio(format) == [type |-> "output_audio", format |-> format]
Message(content) == [type |-> "Message", content |-> content]
ItemReference == [type |-> "ItemReference"]

\* AudioConfig, SessionUpdate and ResponseConfig, by the fields validation
\* reads plus the other fields that can hold an audio format.
AudioConfig(input, output) == [input |-> input, output |-> output]
InputAudioConfig(format) == [format |-> format]
OutputAudioConfig(format) == [format |-> format]
SessionUpdateConfig(input_audio_format, output_audio_format, audio, tools) ==
  [config |-> [input_audio_format |-> input_audio_format,
               output_audio_format |-> output_audio_format,
               audio |-> audio, tools |-> tools]]
ResponseConfig(input_audio_format, input, audio, tools) ==
  [input_audio_format |-> input_audio_format, input |-> input,
   audio |-> audio, tools |-> tools]

\* ClientEvent::SessionUpdate, ResponseCreate { response: Some(config) } and
\* ConversationItemCreate.
SessionUpdate(session) == [type |-> "SessionUpdate", session |-> session]
ResponseCreateWith(config) == [type |-> "ResponseCreate", response |-> config]
ConversationItemCreate(item) == [type |-> "ConversationItemCreate", item |-> item]

\* `r?` over a sequence of results: the first failure, or success.
FirstErr(results) ==
  LET bad == {i \in 1..Len(results) : ~results[i].ok}
  IN IF bad = {} THEN Sent
     ELSE results[CHOOSE i \in bad : \A j \in bad : i <= j]

validate_audio_format(format) == AudioFormat_validate(format)

\* Each `if let Some(x) = &opt { validate(x)?; }` is an IF on IsSome.
validate_input_audio_config(audio) ==
  IF IsSome(audio.format) THEN validate_audio_format(audio.format[1]) ELSE Sent

validate_output_audio_config(audio) ==
  IF IsSome(audio.format) THEN validate_audio_format(audio.format[1]) ELSE Sent

validate_audio_config(audio) ==
  FirstErr(<< IF IsSome(audio.input)
                THEN validate_input_audio_config(audio.input[1]) ELSE Sent,
              IF IsSome(audio.output)
                THEN validate_output_audio_config(audio.output[1]) ELSE Sent >>)

validate_tools(tools) ==
  FirstErr([i \in 1..Len(tools) |->
             IF tools[i].type = "mcp" THEN McpToolConfig_validate(tools[i].config)
             ELSE Sent])

validate_session_update(session) ==
  LET config == session.config
  IN FirstErr(<< IF IsSome(config.input_audio_format)
                   THEN validate_audio_format(config.input_audio_format[1])
                   ELSE Sent,
                 IF IsSome(config.output_audio_format)
                   THEN validate_audio_format(config.output_audio_format[1])
                   ELSE Sent,
                 IF IsSome(config.audio)
                   THEN validate_audio_config(config.audio[1]) ELSE Sent,
                 IF IsSome(config.tools)
                   THEN validate_tools(config.tools[1]) ELSE Sent >>)

validate_response_config(config) ==
  FirstErr(<< IF IsSome(config.audio)
                THEN validate_audio_config(config.audio[1]) ELSE Sent,
              IF IsSome(config.tools)
                THEN validate_tools(config.tools[1]) ELSE Sent >>)

\* A size check that also refuses a payload of exactly the limit.
validate_client_event_AtLimit(event) ==
  IF event.type = "InputAudioBufferAppend"
    THEN LET size == estimate_base64_decoded_len(event.audio)
         IN IF ~size.ok THEN InvalidClientEvent(size.err)
            ELSE IF size.size >= MAX_INPUT_AUDIO_CHUNK_BYTES
              THEN InvalidClientEvent("exceeds 15MB")
            ELSE Sent
  ELSE IF event.type = "SessionUpdate"
    THEN validate_session_update(event.session)
  ELSE IF event.type = "ResponseCreate" /\ "response" \in DOMAIN event
    THEN validate_response_config(event.response)
  ELSE Sent

\* validate_client_event: the append arm, the session-update arm, the
\* response-create arm for `response: Some(config)`, and `_ => {}`.
validate_client_event(event) ==
  IF event.type = "InputAudioBufferAppend"
    THEN LET size == estimate_base64_decoded_len(event.audio)
         IN IF ~size.ok THEN InvalidClientEvent(size.err)
            ELSE IF size.size > MAX_INPUT_AUDIO_CHUNK_BYTES
              THEN InvalidClientEvent("exceeds 15MB")
            ELSE Sent
  ELSE IF event.type = "SessionUpdate"
    THEN validate_session_update(event.session)
  ELSE IF event.type = "ResponseCreate" /\ "response" \in DOMAIN event
    THEN validate_response_config(event.response)
  ELSE Sent

\* ------------------------------- protocol message model (serde_json)
\* serde_json::Value. The fields of an object are a function from names.
JNull == [j |-> "null"]
JStr(s) == [j |-> "str", v |-> s]
JNum(n) == [j |-> "num", v |-> n]
JArr(items) == [j |-> "arr", items |-> items]
JObj(fields) == [j |-> "obj", fields |-> fields]
NoValue == [j |-> "none"]

Roles == {"user", "assistant", "system"}
Statuses == {"in_progress", "completed", "incomplete"}

Required(kind) == [kind |-> kind, optional |-> FALSE]
Optional(kind) == [kind |-> kind, optional |-> TRUE]

\* ServerEventRepr, ItemRepr and ContentPartRepr: discriminator, variant
\* and the type of each field, for the variants of this model.
ServerEventRepr ==
  [response_output_text_delta |->
     [tag |-> "response.output_text.delta", variant |-> "ResponseOutputTextDelta",
      fields |-> [event_id |-> Required("str"), response_id |-> Required("str"),
                  item_id |-> Required("str"), output_index |-> Required("num"),
                  content_index |-> Required("num"), delta |-> Required("str")]],
   conversation_item_added |->
     [tag |-> "conversation.item.added", variant |-> "ConversationItemAdded",
      fields |-> [event_id |-> Required("str"),
                  previous_item_id |-> Optional("str"),
                  item |-> Required("item")]],
   response_content_part_added |->
     [tag |-> "response.content_part.added", variant |-> "ResponseContentPartAdded",
      fields |-> [event_id |-> Required("str"), response_id |-> Required("str"),
                  item_id |-> Required("str"), output_index |-> Required("num"),
                  content_index |-> Required("num"), part |-> Required("part")]]]

ItemRepr ==
  [message |->
     [tag |-> "message", variant |-> "Message",
      fields |-> [id |-> Optional("str"), status |-> Optional("status"),
                  role |-> Required("role"), content |-> Required("parts")]],
   function_call_output |->
     [tag |-> "function_call_output", variant |-> "FunctionCallOutput",
      fields |-> [id |-> Optional("str"), call_id |-> Required("str"),
                  output |-> Required("str")]]]

ContentPartRepr ==
  [input_text |->
     [tag |-> "input_text", variant |-> "InputText",
      fields |-> [text |-> Required("str")]],
   input_image |->
     [tag |-> "input_image", variant |-> "InputImage",
      fields |-> [image_url |-> Required("str"), detail |-> Optional("str")]]]

Levels == {"event", "item", "part"}
Repr(level) ==
  CASE level = "event" -> ServerEventRepr
    [] level = "item" -> ItemRepr
    [] level = "part" -> ContentPartRepr

\* The variants of a Repr whose discriminator is t (none or one).
VariantsFor(level, t) ==
  {k \in DOMAIN Repr(level) : Repr(level)[k].tag = t}

Failed == [ok |-> FALSE, val |-> Nothing]
Decoded(val) == [ok |-> TRUE, val |-> val]
Unknown(value) == [variant |-> "Unknown", raw |-> value]

RECURSIVE DecodeField(_, _), ReprDecode(_, _), Deserialize(_, _)

\* A field decode that hands the nested strict decode's failure upwards.
DecodeField_Propagates(kind, v) ==
  CASE kind = "str" -> IF v.j = "str" THEN Decoded(v.v) ELSE Failed
    [] kind = "num" -> IF v.j = "num" THEN Decoded(v.v) ELSE Failed
    [] kind = "role" ->
         IF v.j = "str" /\ v.v \in Roles THEN Decoded(v.v) ELSE Failed
    [] kind = "status" ->
         IF v.j = "str" /\ v.v \in Statuses THEN Decoded(v.v) ELSE Failed
    [] kind = "item" -> ReprDecode("item", v)
    [] kind = "part" -> ReprDecode("part", v)
    [] kind = "parts" ->
         IF v.j # "arr" THEN Failed
         ELSE IF \E i \in 1..Len(v.items) : ~ReprDecode("part", v.items[i]).ok
           THEN Failed
         ELSE Decoded([i \in 1..Len(v.items) |-> ReprDecode("part", v.items[i]).val])

\* One field of a Repr, by its type: String, u32, Role, ItemStatus, Item,
\* ContentPart, Vec<ContentPart>. Item and ContentPart use their own
\* Deserialize.
DecodeField(kind, v) ==
  CASE kind = "str" -> IF v.j = "str" THEN Decoded(v.v) ELSE Failed
    [] kind = "num" -> IF v.j = "num" THEN Decoded(v.v) ELSE Failed
    [] kind = "role" ->
         IF v.j = "str" /\ v.v \in Roles THEN Decoded(v.v) ELSE Failed
    [] kind = "status" ->
         IF v.j = "str" /\ v.v \in Statuses THEN Decoded(v.v) ELSE Failed
    [] kind = "item" -> Deserialize("item", v)
    [] kind = "part" -> Deserialize("part", v)
    [] kind = "parts" ->
         IF v.j # "arr" THEN Failed
         ELSE Decoded([i \in 1..Len(v.items) |-> Deserialize("part", v.items[i]).val])

\* The derived Deserialize of an internally tagged Repr: the tag selects the
\* variant, a required field must be there, an Option field may be absent
\* or null, a field the variant does not have is ignored.
ReprDecode(level, value) ==
  IF value.j # "obj" THEN Failed
  ELSE IF "type" \notin DOMAIN value.fields THEN Failed
  ELSE IF value.fields["type"].j # "str" THEN Failed
  ELSE IF VariantsFor(level, value.fields["type"].v) = {} THEN Failed
  ELSE
    LET k == CHOOSE x \in VariantsFor(level, value.fields["type"].v) : TRUE
        schema == Repr(level)[k]
        field(n) ==
          LET ty == schema.fields[n]
          IN IF n \notin DOMAIN value.fields
               THEN IF ty.optional THEN Decoded(Nothing) ELSE Failed
             ELSE IF ty.optional /\ value.fields[n].j = "null"
               THEN Decoded(Nothing)
             ELSE LET r == DecodeField(ty.kind, value.fields[n])
                  IN IF ty.optional /\ r.ok THEN Decoded(Some(r.val)) ELSE r
    IN IF \A n \in DOMAIN schema.fields : field(n).ok
         THEN Decoded([variant |-> schema.variant, level |-> level,
                       f |-> [n \in DOMAIN schema.fields |-> field(n).val]])
       ELSE Failed

\* impl Deserialize for ServerEvent, Item and ContentPart: the value is kept,
\* the Repr is tried, and a failure gives Unknown(value).
Deserialize(level, value) ==
  LET repr == ReprDecode(level, value)
  IN IF repr.ok THEN Decoded(repr.val) ELSE Decoded(Unknown(value))

\* The derived Serialize of ServerEventRepr writes None as null; the
\* hand-written ones of Item and ContentPart leave a None field out.
SkipsNone(level) == level \in {"item", "part"}

RECURSIVE EncodeField(_, _), Serialize(_)

EncodeField(kind, x) ==
  CASE kind \in {"str", "role", "status"} -> JStr(x)
    [] kind = "num" -> JNum(x)
    [] kind \in {"item", "part"} -> Serialize(x)
    [] kind = "parts" -> JArr([i \in 1..Len(x) |-> Serialize(x[i])])

\* impl Serialize for ServerEvent, Item and ContentPart.
Serialize(typed) ==
  IF typed.variant = "Unknown" THEN typed.raw
  ELSE
    LET k == CHOOSE x \in DOMAIN Repr(typed.level) :
               Repr(typed.level)[x].variant = typed.variant
        schema == Repr(typed.level)[k]
        written == {n \in DOMAIN schema.fields :
                      ~(schema.fields[n].optional /\ ~IsSome(typed.f[n])
                        /\ SkipsNone(typed.level))}
    IN JObj([n \in written \cup {"type"} |->
              IF n = "type" THEN JStr(schema.tag)
              ELSE IF schema.fields[n].optional
                THEN IF IsSome(typed.f[n])
                       THEN EncodeField(schema.fields[n].kind, typed.f[n][1])
                     ELSE JNull
              ELSE EncodeField(schema.fields[n].kind, typed.f[n])])

\* ------------------------------------------------------------- JSON
ValidJson == {"{\"hello\":\"world\"}"}
\* serde_json::from_str(&arguments).unwrap_or(Value::String(arguments))
ParseArguments(s) ==
  IF s \in ValidJson THEN [kind |-> "object", raw |-> s]
  ELSE [kind |-> "string", raw |-> s]
\* serde_json::to_string of a tool's output value.
JsonToString(v) == [error_object |-> FALSE, text |-> v.raw]
\* serde_json::json!({ "error": err.to_string() }).to_string()
ErrorJson(msg) == [error_object |-> TRUE, text |-> msg]

\* ------------------------------------------------------ tool registry
\* ToolDefinition { name, description, schema }: the schema is that of a
\* JSON object for every tool of this model.
ToolDefinition(name, description) == [name |-> name, description |-> description]

\* handlers.get(name) is None.  A stored adapter is told apart by the
\* number of the registration that built it.
NoHandler == 0

\* Names that have a handler; every handler takes a JSON object.
Registry == {n \in ToolNames : handlers[n] # NoHandler}
Ok(cid, out) == [ok |-> TRUE, call_id |-> cid, output |-> out, error |-> ""]
Err(msg) ==
  [ok |-> FALSE, call_id |-> "", output |-> [kind |-> "null", raw |-> ""],
   error |-> msg]
NoResult == Err("not a tool call")

\* The adapter built at registration: decode the arguments, run the user
\* handler (user_ok: whether it returns Ok), encode its value (encode_ok:
\* whether serde_json::to_value takes it). `invoked` tells whether the user
\* handler was called.
ToolHandler(arguments, user_ok, encode_ok) ==
  IF arguments.kind # "object"
    THEN [invoked |-> FALSE, result |-> Err("Invalid client event: invalid type")]
  ELSE IF ~user_ok
    THEN [invoked |-> TRUE, result |-> Err("handler failed")]
  ELSE IF ~encode_ok
    THEN [invoked |-> TRUE,
          result |-> Err("Invalid client event: key must be a string")]
  ELSE [invoked |-> TRUE, result |-> Ok("", arguments)]

\* A dispatch that hands back the adapter's result as it is.
dispatch_BlankCallId(registry, call, user_ok, encode_ok) ==
  IF call.name \notin registry
    THEN [invoked |-> FALSE, result |-> Err("Invalid client event: unknown tool")]
  ELSE ToolHandler(call.arguments, user_ok, encode_ok)

\* ToolRegistry::dispatch; `result` is what it returns.
dispatch(registry, call, user_ok, encode_ok) ==
  IF call.name \notin registry
    THEN [invoked |-> FALSE, result |-> Err("Invalid client event: unknown tool")]
    ELSE LET run == ToolHandler(call.arguments, user_ok, encode_ok)
             output == run.result
         IN [invoked |-> run.invoked,
             result |-> IF output.ok THEN Ok(call.call_id, output.output)
                        ELSE output]

\* A caller-supplied ToolCallHandler: any Result<ToolResult>; the ToolResult
\* it returns carries whatever call id the handler put there.
on_tool_call(call, user_ok, ret_call_id) ==
  IF user_ok THEN Ok(ret_call_id, call.arguments) ELSE Err("handler failed")

\* ------------------------------------------------- event classifier
map_response_text(evt) ==
  CASE evt.type = "ResponseOutputTextDelta" ->
         Some([kind |-> "TextDelta", response_id |-> evt.response_id,
               item_id |-> evt.item_id, output_index |-> evt.output_index,
               content_index |-> evt.content_index, delta |-> evt.delta])
    [] evt.type = "ResponseOutputTextDone" ->
         Some([kind |-> "TextDone", response_id |-> evt.response_id,
               item_id |-> evt.item_id, output_index |-> evt.output_index,
               content_index |-> evt.content_index, text |-> evt.text])
    [] OTHER -> Nothing

map_response_audio(evt) ==
  CASE evt.type = "ResponseOutputAudioDelta" ->
         Some([kind |-> "AudioDelta", response_id |-> evt.response_id,
               item_id |-> evt.item_id, output_index |-> evt.output_index,
               content_index |-> evt.content_index, delta |-> evt.delta])
    [] evt.type = "ResponseOutputAudioDone" ->
         Some([kind |-> "AudioDone", response_id |-> evt.response_id,
               item_id |-> evt.item_id, output_index |-> evt.output_index,
               content_index |-> evt.content_index, item |-> evt.item])
    [] evt.type = "ResponseOutputAudioTranscriptDelta" ->
         Some([kind |-> "TranscriptDelta", response_id |-> evt.response_id,
               item_id |-> evt.item_id, output_index |-> evt.output_index,
               content_index |-> evt.content_index, delta |-> evt.delta])
    [] evt.type = "ResponseOutputAudioTranscriptDone" ->
         Some([kind |-> "TranscriptDone", response_id |-> evt.response_id,
               item_id |-> evt.item_id, output_index |-> evt.output_index,
               content_index |-> evt.content_index,
               transcript |-> evt.transcript])
    [] OTHER -> Nothing

map_response_content(evt) ==
  CASE evt.type = "ResponseContentPartAdded" ->
         Some([kind |-> "ContentPartAdded", response_id |-> evt.response_id,
               item_id |-> evt.item_id, output_index |-> evt.output_index,
               content_index |-> evt.content_index, part |-> evt.part])
    [] evt.type = "ResponseContentPartDone" ->
         Some([kind |-> "ContentPartDone", response_id |-> evt.response_id,
               item_id |-> evt.item_id, output_index |-> evt.output_index,
               content_index |-> evt.content_index, part |-> evt.part])
    [] OTHER -> Nothing

map_response_tool(evt) ==
  CASE evt.type = "ResponseFunctionCallArgumentsDelta" ->
         Some([kind |-> "ToolCallDelta", response_id |-> evt.response_id,
               item_id |-> evt.item_id, output_index |-> evt.output_index,
               call_id |-> evt.call_id, delta |-> evt.delta])
    [] evt.type = "ResponseFunctionCallArgumentsDone" ->
         Some([kind |-> "ToolCall", response_id |-> evt.response_id,
               item_id |-> evt.item_id, output_index |-> evt.output_index,
               call_id |-> evt.call_id, name |-> evt.name,
               arguments |-> evt.arguments])
    [] OTHER -> Nothing

\* a.or_else(|| b)
or_else(a, b) == IF IsSome(a) THEN a ELSE b

map_response_ref(evt) ==
  or_else(or_else(or_else(map_response_text(evt), map_response_audio(evt)),
                  map_response_content(evt)),
          map_response_tool(evt))

map_transcription_ref(evt) ==
  CASE evt.type = "InputAudioTranscriptionDelta" ->
         Some([kind |-> "InputTranscriptionDelta", item_id |-> evt.item_id,
               content_index |-> evt.content_index, delta |-> evt.delta])
    [] evt.type = "InputAudioTranscriptionCompleted" ->
         Some([kind |-> "InputTranscriptionCompleted", item_id |-> evt.item_id,
               content_index |-> evt.content_index,
               transcript |-> evt.transcript, usage |-> evt.usage])
    [] OTHER -> Nothing

\* A mapper that lets the error notification fall through.
map_error_ref_None(evt) == Nothing

map_error_ref(evt) ==
  IF evt.type = "Error"
    THEN Some([kind |-> "Error", event_id |-> evt.event_id, error |-> evt.error])
  ELSE Nothing

\* SdkEvent::from_server: an Option<SdkEvent>.
from_server(evt) ==
  IF IsSome(map_response_ref(evt)) THEN map_response_ref(evt)
  ELSE IF IsSome(map_transcription_ref(evt)) THEN map_transcription_ref(evt)
  ELSE IF IsSome(map_error_ref(evt)) THEN map_error_ref(evt)
  ELSE Some([kind |-> "Raw", raw |-> evt])

\* ------------------------------------------------------ the handlers
\* A lifecycle stage that leaves the active id in place on response-done.
handle_response_lifecycle_KeepsOnDone(evt) ==
  CASE evt.type = "ResponseCreated" ->
         << SetActive(evt.response_id),
            Push("voice", [kind |-> "ResponseCreated",
                           response_id |-> evt.response_id]) >>
    [] evt.type = "ResponseDone" ->
         << Push("voice", [kind |-> "ResponseDone",
                           response_id |-> evt.response_id]) >>
    [] OTHER -> <<>>

\* A lifecycle step that also forgets the response in progress when the
\* server reports an error.
handle_response_lifecycle_ClearsOnError(evt) ==
  CASE evt.type = "ResponseCreated" ->
         << SetActive(evt.response_id),
            Push("voice", [kind |-> "ResponseCreated",
                           response_id |-> evt.response_id]) >>
    [] evt.type \in {"ResponseDone", "Error"} ->
         << SetActive(None) >>
            \o (IF evt.type = "ResponseDone"
                  THEN << Push("voice", [kind |-> "ResponseDone",
                                         response_id |-> evt.response_id]) >>
                  ELSE <<>>)
    [] OTHER -> <<>>

handle_response_lifecycle(evt) ==
  CASE evt.type = "ResponseCreated" ->
         << SetActive(evt.response_id),
            Push("voice", [kind |-> "ResponseCreated",
                           response_id |-> evt.response_id]) >>
    [] evt.type = "ResponseDone" ->
         << SetActive(None),
            Push("voice", [kind |-> "ResponseDone",
                           response_id |-> evt.response_id]) >>
    [] OTHER -> <<>>

should_accept_response_Always(active, response_id) == TRUE

should_accept_response_Strict(active, response_id) == active = response_id

should_accept_response(active, response_id) ==
  IF active = None THEN TRUE ELSE active = response_id

\* A barge-in that reads the id without taking it.
send_barge_in_KeepsId(active, w1, w2) ==
  << Write(OutputAudioBufferClear, w1) >>
    \o (IF active # None THEN << Write(ResponseCancel(active), w2) >> ELSE <<>>)

\* A barge-in that also throws away the text gathered so far.
send_barge_in_DropsBuffers(active, w1, w2) ==
  << SetActive(None), BufRemove(<< "item_1", 0 >>),
     BufRemove(<< "item_2", 0 >>), Write(OutputAudioBufferClear, w1) >>
    \o (IF active # None THEN << Write(ResponseCancel(active), w2) >> ELSE <<>>)

send_barge_in(active, w1, w2) ==
  << SetActive(None), Write(OutputAudioBufferClear, w1) >>
    \o (IF active # None THEN << Write(ResponseCancel(active), w2) >> ELSE <<>>)

\* A speech stage that barges in at either boundary, whatever the
\* configuration says.
handle_speech_events_AlwaysBargesIn(evt, active, auto_barge_in, w1, w2) ==
  CASE evt.type = "InputAudioBufferSpeechStarted" ->
         << Push("voice", [kind |-> "SpeechStarted",
                           audio_start_ms |-> evt.audio_start_ms]) >>
           \o send_barge_in(active, w1, w2)
    [] evt.type = "InputAudioBufferSpeechStopped" ->
         << Push("voice", [kind |-> "SpeechStopped",
                           audio_end_ms |-> evt.audio_end_ms]) >>
           \o send_barge_in(active, w1, w2)
    [] OTHER -> <<>>

handle_speech_events(evt, active, auto_barge_in, w1, w2) ==
  CASE evt.type = "InputAudioBufferSpeechStarted" ->
         << Push("voice", [kind |-> "SpeechStarted",
                           audio_start_ms |-> evt.audio_start_ms]) >>
           \o (IF auto_barge_in THEN send_barge_in(active, w1, w2) ELSE <<>>)
    [] evt.type = "InputAudioBufferSpeechStopped" ->
         << Push("voice", [kind |-> "SpeechStopped",
                           audio_end_ms |-> evt.audio_end_ms]) >>
    [] OTHER -> <<>>

\* An audio handler that passes over a payload it cannot decode.
handle_audio_events_SkipsBadAudio(evt, active) ==
  CASE evt.type = "ResponseOutputAudioDelta" ->
         IF ~should_accept_response(active, evt.response_id) THEN <<>>
         ELSE LET pcm == B64Decode(evt.delta)
              IN IF pcm.ok
                   THEN << Push("voice", [kind |-> "AudioDelta",
                                          response_id |-> evt.response_id,
                                          item_id |-> evt.item_id,
                                          content_index |-> evt.content_index,
                                          pcm |-> pcm.bytes]),
                           Push("audio", [response_id |-> evt.response_id,
                                          item_id |-> evt.item_id,
                                          content_index |-> evt.content_index,
                                          pcm |-> pcm.bytes]) >>
                   ELSE <<>>
    [] evt.type = "ResponseOutputAudioDone" ->
         IF ~should_accept_response(active, evt.response_id) THEN <<>>
         ELSE << Push("voice", [kind |-> "AudioDone",
                                response_id |-> evt.response_id,
                                item_id |-> evt.item_id,
                                content_index |-> evt.content_index]) >>
    [] OTHER -> <<>>

handle_audio_events(evt, active) ==
  CASE evt.type = "ResponseOutputAudioDelta" ->
         IF ~should_accept_response(active, evt.response_id) THEN <<>>
         ELSE LET pcm == B64Decode(evt.delta)
              IN IF pcm.ok
                   THEN << Push("voice", [kind |-> "AudioDelta",
                                          response_id |-> evt.response_id,
                                          item_id |-> evt.item_id,
                                          content_index |-> evt.content_index,
                                          pcm |-> pcm.bytes]),
                           Push("audio", [response_id |-> evt.response_id,
                                          item_id |-> evt.item_id,
                                          content_index |-> evt.content_index,
                                          pcm |-> pcm.bytes]) >>
                   ELSE << Push("voice", [kind |-> "DecodeError"]) >>
    [] evt.type = "ResponseOutputAudioDone" ->
         IF ~should_accept_response(active, evt.response_id) THEN <<>>
         ELSE << Push("voice", [kind |-> "AudioDone",
                                response_id |-> evt.response_id,
                                item_id |-> evt.item_id,
                                content_index |-> evt.content_index]) >>
    [] OTHER -> <<>>

\* A transcript stage that tags every chunk as not final.
handle_transcript_events_NeverFinal(evt, active) ==
  IF evt.type \notin {"ResponseOutputAudioTranscriptDelta",
                      "ResponseOutputAudioTranscriptDone"}
       \/ ~should_accept_response(active, evt.response_id)
    THEN <<>>
    ELSE LET text == IF evt.type = "ResponseOutputAudioTranscriptDelta"
                       THEN evt.delta ELSE evt.transcript
         IN << Push("voice", [kind |-> "TranscriptDelta",
                              response_id |-> evt.response_id,
                              item_id |-> evt.item_id,
                              content_index |-> evt.content_index,
                              delta |-> text]),
               Push("transcript", [response_id |-> evt.response_id,
                                   item_id |-> evt.item_id,
                                   content_index |-> evt.content_index,
                                   text |-> text,
                                   is_final |-> FALSE]) >>

handle_transcript_events(evt, active) ==
  CASE evt.type = "ResponseOutputAudioTranscriptDelta" ->
         IF ~should_accept_response(active, evt.response_id) THEN <<>>
         ELSE << Push("voice", [kind |-> "TranscriptDelta",
                                response_id |-> evt.response_id,
                                item_id |-> evt.item_id,
                                content_index |-> evt.content_index,
                                delta |-> evt.delta]),
                 Push("transcript", [response_id |-> evt.response_id,
                                     item_id |-> evt.item_id,
                                     content_index |-> evt.content_index,
                                     text |-> evt.delta,
                                     is_final |-> FALSE]) >>
    [] evt.type = "ResponseOutputAudioTranscriptDone" ->
         IF ~should_accept_response(active, evt.response_id) THEN <<>>
         ELSE << Push("voice", [kind |-> "TranscriptDone",
                                response_id |-> evt.response_id,
                                item_id |-> evt.item_id,
                                content_index |-> evt.content_index,
                                transcript |-> evt.transcript]),
                 Push("transcript", [response_id |-> evt.response_id,
                                     item_id |-> evt.item_id,
                                     content_index |-> evt.content_index,
                                     text |-> evt.transcript,
                                     is_final |-> TRUE]) >>
    [] OTHER -> <<>>

\* lifecycle, speech, audio, transcript, each reading the id the earlier
\* ones left.
\* Voice stages whose response-done clears the id only when it names the
\* response that is active.
handle_voice_events_DoneGated(evt, ctx, env) ==
  LET keepsId(o) == o.op # "set_active"
      all == handle_response_lifecycle(evt)
      life == IF evt.type = "ResponseDone" /\ ctx.active # evt.response_id
                THEN SelectSeq(all, keepsId) ELSE all
      a1 == ActiveAfter(life, ctx.active)
      speech == handle_speech_events(evt, a1, ctx.auto_barge_in, env.w1, env.w2)
      a2 == ActiveAfter(speech, a1)
  IN life \o speech \o handle_audio_events(evt, a2)
       \o handle_transcript_events(evt, a2)

handle_voice_events(evt, ctx, env) ==
  LET life == handle_response_lifecycle(evt)
      a1 == ActiveAfter(life, ctx.active)
      speech == handle_speech_events(evt, a1, ctx.auto_barge_in, env.w1, env.w2)
      a2 == ActiveAfter(speech, a1)
  IN life \o speech \o handle_audio_events(evt, a2)
       \o handle_transcript_events(evt, a2)

\* The Result the tool stage works with.
ToolResultOf(evt, ctx, env) ==
  IF evt.type # "ResponseFunctionCallArgumentsDone" THEN NoResult
  ELSE LET call == [name |-> evt.name, call_id |-> evt.call_id,
                    arguments |-> ParseArguments(evt.arguments)]
       IN IF ctx.on_tool_call
            THEN on_tool_call(call, env.user_ok, env.ret_call_id)
            ELSE dispatch(Registry, call, env.user_ok, TRUE).result

\* An Ok arm that follows up whatever the configuration says.
ToolSuccess_AlwaysFollowsUp(result, auto_tool_response, w1, w2) ==
  << Write(FunctionCallOutput(result.call_id, JsonToString(result.output)), w1),
     Write(ResponseCreate, w2) >>

\* The Ok arm of the tool stage.
ToolSuccess(result, auto_tool_response, w1, w2) ==
  << Write(FunctionCallOutput(result.call_id, JsonToString(result.output)), w1) >>
    \o (IF auto_tool_response THEN << Write(ResponseCreate, w2) >> ELSE <<>>)

\* An Err arm that swallows the failure.
ToolFailure_Silent(call_id, result, w1) == <<>>

\* The Err arm of the tool stage.
ToolFailure(call_id, result, w1) ==
  << Write(FunctionCallOutput(call_id, ErrorJson(result.error)), w1) >>

\* The text-delta arm: append to the buffer of the key.
TextDeltaArm(evt) ==
  << BufAppend(<< evt.item_id, evt.content_index >>, evt.delta) >>

\* A text-done arm that publishes and leaves the buffer in place.
TextDoneArm_Leaky(evt) == << Push("text", evt.text) >>

\* The text-done arm: drop the buffer, publish the final text.
TextDoneArm(evt) ==
  << BufRemove(<< evt.item_id, evt.content_index >>), Push("text", evt.text) >>

\* The match at the end of handle_server_event.
handle_tail(evt, ctx, env) ==
  CASE evt.type = "ResponseOutputTextDelta" -> TextDeltaArm(evt)
    [] evt.type = "ResponseOutputTextDone" -> TextDoneArm(evt)
    [] evt.type = "ResponseFunctionCallArgumentsDone" ->
         LET result == ToolResultOf(evt, ctx, env)
         IN << Call("tool") >>
              \o (IF result.ok
                    THEN ToolSuccess(result, ctx.auto_tool_response, env.w1, env.w2)
                    ELSE ToolFailure(evt.call_id, result, env.w1))
    [] OTHER -> <<>>

\* A handler that keeps unrecognized notifications off the coarse stream.
handle_server_event_SkipsUnknown(evt, ctx, env) ==
  handle_voice_events(evt, ctx, env)
    \o (IF evt.type = "Unknown" \/ ~IsSome(from_server(evt)) THEN <<>>
        ELSE << Push("event", from_server(evt)[1]) >>)
    \o << Call("on_raw_event") >>
    \o handle_tail(evt, ctx, env)

\* A handler that fans the notification out before the voice stages run.
handle_server_event_FanOutFirst(evt, ctx, env) ==
  (IF IsSome(from_server(evt))
     THEN << Push("event", from_server(evt)[1]) >> ELSE <<>>)
    \o << Call("on_raw_event") >>
    \o handle_voice_events(evt, ctx, env)
    \o handle_tail(evt, ctx, env)

handle_server_event(evt, ctx, env) ==
  handle_voice_events(evt, ctx, env)
    \o (IF IsSome(from_server(evt))
          THEN << Push("event", from_server(evt)[1]) >> ELSE <<>>)
    \o << Call("on_raw_event") >>
    \o handle_tail(evt, ctx, env)

\* ------------------------------------------------------- the actor
\* The actor's own state as one record, for running a handler's steps.
ActorState ==
  [active |-> active_response_id, buffers |-> buffers, sent |-> sent,
   queued |-> queued, outgoing |-> outgoing, pc |-> pc, todo |-> todo,
   stalled |-> stalled, rx_open |-> session_alive]

\* One step that never suspends.
Apply(st, o, n) ==
  CASE o.op = "set_active" -> [st EXCEPT !.active = o.val]
    [] o.op = "write" ->
         [st EXCEPT !.outgoing =
            Append(@, [src |-> n, cmd |-> 0, ev |-> o.ev, ok |-> o.ok, at |-> n])]
    [] o.op = "buf_append" ->
         [st EXCEPT !.buffers[o.key] =
            IF @ = NoBuf THEN o.delta ELSE @ \o o.delta]
    [] o.op = "buf_remove" -> [st EXCEPT !.buffers[o.key] = NoBuf]
    [] o.op = "call" -> st

\* tx.send(item).await on a channel with room; when the receiver is gone
\* the send returns Err at once, which `let _ =` discards.
Deliver(st, o, n) ==
  IF st.rx_open
    THEN [st EXCEPT !.sent[o.ch] = Append(@, [src |-> n, item |-> o.item]),
                    !.queued[o.ch] = @ + 1]
    ELSE st

\* A channel without a capacity.
MustWait_Never(st, o) == FALSE

\* A send that keeps waiting for room after the receiver is gone.
MustWait_IgnoresClose(st, o) == st.queued[o.ch] >= Cap(o.ch)

\* Whether tx.send(item).await has to wait.
MustWait(st, o) == st.rx_open /\ st.queued[o.ch] >= Cap(o.ch)

\* Run the steps of notification n until they are done or one must wait.
RECURSIVE Exec(_, _, _)
Exec(st, ops, n) ==
  IF ops = <<>> THEN [st EXCEPT !.pc = "select", !.todo = <<>>]
  ELSE LET o == Head(ops)
       IN IF o.op = "push"
            THEN IF MustWait(st, o)
                   THEN [st EXCEPT !.pc = "blocked", !.todo = ops,
                                   !.stalled = @ \cup {n}]
                   ELSE Exec(Deliver(st, o, n), Tail(ops), n)
            ELSE Exec(Apply(st, o, n), Tail(ops), n)

Install(st) ==
  /\ active_response_id' = st.active
  /\ buffers' = st.buffers
  /\ sent' = st.sent
  /\ queued' = st.queued
  /\ outgoing' = st.outgoing
  /\ pc' = st.pc
  /\ todo' = st.todo
  /\ stalled' = st.stalled

Ctx ==
  [active |-> active_response_id, auto_barge_in |-> cfg.auto_barge_in,
   auto_tool_response |-> cfg.auto_tool_response,
   on_tool_call |-> cfg.on_tool_call]

\* What the environment decides while one notification is handled: whether
\* the connection accepts the first and the second frame written, whether the
\* user's tool code returns Ok, and the call id a caller-supplied handler
\* puts in its ToolResult.
Envs ==
  [w1 : BOOLEAN, w2 : BOOLEAN, user_ok : BOOLEAN, ret_call_id : CallIds]

\* transport.next_event() yields Ok(Some(evt)): the select! arm that calls
\* handle_server_event.
RecvEvent(evt, env) ==
  /\ pc = "select"
  /\ LET n == Len(arrived) + 1
     IN /\ arrived' = Append(arrived,
                        [evt |-> evt, pre |-> active_response_id,
                         result |-> ToolResultOf(evt, Ctx, env)])
        /\ Install(Exec(ActorState, handle_server_event(evt, Ctx, env), n))
  /\ UNCHANGED << cfg, taken, cmd_rx, issued, replies >>
  /\ UNCHANGED << caller_vars, client_vars, registry_vars, wire_vars >>

\* The channel the handler waits on has room again: the handler goes on.
Resume ==
  /\ pc = "blocked"
  /\ ~MustWait(ActorState, Head(todo))
  /\ Install(Exec(ActorState, todo, Len(arrived)))
  /\ UNCHANGED << cfg, taken, arrived, cmd_rx, issued, replies >>
  /\ UNCHANGED << caller_vars, client_vars, registry_vars, wire_vars >>

\* The caller reads one item from an output stream (next_text, next_event,
\* next_voice_event, next_audio_chunk, next_transcript).
Consume(ch) ==
  /\ session_alive
  /\ queued[ch] > 0
  /\ queued' = [queued EXCEPT ![ch] = @ - 1]
  /\ taken' = [taken EXCEPT ![ch] = @ + 1]
  /\ UNCHANGED << cfg, active_response_id, buffers, sent, outgoing, arrived,
                  pc, todo, stalled, cmd_rx, issued, replies >>
  /\ UNCHANGED << caller_vars, client_vars, registry_vars, wire_vars >>

\* ----------------------------------------------------------- commands
SendWithResponse(id, ev) ==
  [id |-> id, kind |-> "SendWithResponse", ev |-> ev,
   call |-> [name |-> "", call_id |-> "", arguments |-> ParseArguments("")]]
RunTool(id, call) ==
  [id |-> id, kind |-> "RunTool", ev |-> [type |-> "none"], call |-> call]

ToolCalls ==
  {[name |-> n, call_id |-> "call_1",
    arguments |-> ParseArguments("{\"hello\":\"world\"}")] : n \in ToolNames}

\* Session::send_event / SessionHandle::send_raw up to the await of the
\* reply: the command is put on the queue.
EnqueueSend(ev) ==
  /\ session_alive \/ handles > 0
  /\ pc # "exited"
  /\ Len(cmd_rx) < CmdCap
  /\ cmd_rx' = Append(cmd_rx, SendWithResponse(issued + 1, ev))
  /\ issued' = issued + 1
  /\ UNCHANGED << cfg, active_response_id, buffers, sent, queued, taken,
                  outgoing, arrived, pc, todo, stalled, replies >>
  /\ UNCHANGED << caller_vars, client_vars, registry_vars, wire_vars >>

\* Session::run_tool up to the await of the reply.
EnqueueRunTool(call) ==
  /\ session_alive
  /\ pc # "exited"
  /\ Len(cmd_rx) < CmdCap
  /\ cmd_rx' = Append(cmd_rx, RunTool(issued + 1, call))
  /\ issued' = issued + 1
  /\ UNCHANGED << cfg, active_response_id, buffers, sent, queued, taken,
                  outgoing, arrived, pc, todo, stalled, replies >>
  /\ UNCHANGED << caller_vars, client_vars, registry_vars, wire_vars >>

\* An actor that answers a run-tool command and also reports its output to
\* the server.
HandleCmd_ViaServer(w, user_ok) ==
  /\ pc = "select"
  /\ cmd_rx # <<>>
  /\ LET c == Head(cmd_rx)
         result == dispatch(Registry, c.call, user_ok, TRUE).result
     IN IF c.kind = "SendWithResponse"
          THEN /\ outgoing' = Append(outgoing,
                                [src |-> 0, cmd |-> c.id, ev |-> c.ev, ok |-> w,
                                 at |-> Len(arrived)])
               /\ replies' = Append(replies,
                               [id |-> c.id, ok |-> w, tool |-> NoResult])
          ELSE /\ outgoing' =
                    Append(outgoing,
                           [src |-> 0, cmd |-> c.id, ok |-> w, at |-> Len(arrived),
                            ev |-> FunctionCallOutput(c.call.call_id,
                                                      JsonToString(result.output))])
               /\ replies' = Append(replies,
                               [id |-> c.id, ok |-> result.ok, tool |-> result])
  /\ cmd_rx' = Tail(cmd_rx)
  /\ UNCHANGED << cfg, active_response_id, buffers, sent, queued, taken,
                  arrived, pc, todo, stalled, issued >>
  /\ UNCHANGED << caller_vars, client_vars, registry_vars, wire_vars >>

\* An actor whose command arm also runs while a notification's handler is
\* waiting for channel space.
HandleCmd_WhileBlocked(w, user_ok) ==
  /\ pc \in {"select", "blocked"}
  /\ cmd_rx # <<>>
  /\ LET c == Head(cmd_rx)
     IN IF c.kind = "SendWithResponse"
          THEN /\ outgoing' = Append(outgoing,
                                [src |-> 0, cmd |-> c.id, ev |-> c.ev, ok |-> w,
                                 at |-> Len(arrived)])
               /\ replies' = Append(replies,
                               [id |-> c.id, ok |-> w, tool |-> NoResult])
          ELSE /\ outgoing' = outgoing
               /\ replies' =
                    LET result == dispatch(Registry, c.call, user_ok, TRUE).result
                    IN Append(replies,
                              [id |-> c.id, ok |-> result.ok, tool |-> result])
  /\ cmd_rx' = Tail(cmd_rx)
  /\ UNCHANGED << cfg, active_response_id, buffers, sent, queued, taken,
                  arrived, pc, todo, stalled, issued >>
  /\ UNCHANGED << caller_vars, client_vars, registry_vars, wire_vars >>

\* An actor whose loop breaks when the connection refuses a command's frame.
HandleCmd_BreaksOnError(w, user_ok) ==
  /\ pc = "select"
  /\ cmd_rx # <<>>
  /\ LET c == Head(cmd_rx)
     IN IF c.kind = "SendWithResponse"
          THEN /\ outgoing' = Append(outgoing,
                                [src |-> 0, cmd |-> c.id, ev |-> c.ev, ok |-> w,
                                 at |-> Len(arrived)])
               /\ replies' = Append(replies,
                               [id |-> c.id, ok |-> w, tool |-> NoResult])
               /\ pc' = IF w THEN pc ELSE "exited"
          ELSE /\ outgoing' = outgoing
               /\ replies' =
                    LET result == dispatch(Registry, c.call, user_ok, TRUE).result
                    IN Append(replies,
                              [id |-> c.id, ok |-> result.ok, tool |-> result])
               /\ pc' = pc
  /\ cmd_rx' = Tail(cmd_rx)
  /\ UNCHANGED << cfg, active_response_id, buffers, sent, queued, taken,
                  arrived, todo, stalled, issued >>
  /\ UNCHANGED << caller_vars, client_vars, registry_vars, wire_vars >>

\* An actor that takes the newest queued command first.
HandleCmd_Lifo(w, user_ok) ==
  /\ pc = "select"
  /\ cmd_rx # <<>>
  /\ LET c == cmd_rx[Len(cmd_rx)]
     IN /\ outgoing' = IF c.kind = "SendWithResponse"
                         THEN Append(outgoing, [src |-> 0, cmd |-> c.id,
                                                ev |-> c.ev, ok |-> w,
                                                at |-> Len(arrived)])
                         ELSE outgoing
        /\ replies' = Append(replies, [id |-> c.id, ok |-> w, tool |-> NoResult])
  /\ cmd_rx' = SubSeq(cmd_rx, 1, Len(cmd_rx) - 1)
  /\ UNCHANGED << cfg, active_response_id, buffers, sent, queued, taken,
                  arrived, pc, todo, stalled, issued >>
  /\ UNCHANGED << caller_vars, client_vars, registry_vars, wire_vars >>

\* The select! arm for cmd_rx.recv(): forward the event to the connection
\* (w: whether the connection accepts it) or dispatch the tool (user_ok:
\* whether the user's tool code returns Ok), and answer the caller.
HandleCmd(w, user_ok) ==
  /\ pc = "select"
  /\ cmd_rx # <<>>
  /\ LET c == Head(cmd_rx)
     IN IF c.kind = "SendWithResponse"
          THEN /\ outgoing' = Append(outgoing,
                                [src |-> 0, cmd |-> c.id, ev |-> c.ev, ok |-> w,
                                 at |-> Len(arrived)])
               /\ replies' = Append(replies,
                               [id |-> c.id, ok |-> w, tool |-> NoResult])
          ELSE /\ outgoing' = outgoing
               /\ replies' =
                    LET result == dispatch(Registry, c.call, user_ok, TRUE).result
                    IN Append(replies,
                              [id |-> c.id, ok |-> result.ok, tool |-> result])
  /\ cmd_rx' = Tail(cmd_rx)
  /\ UNCHANGED << cfg, active_response_id, buffers, sent, queued, taken,
                  arrived, pc, todo, stalled, issued >>
  /\ UNCHANGED << caller_vars, client_vars, registry_vars, wire_vars >>

\* ------------------------------------------------ Session::barge_in
\* The reply the caller's rx.await is waiting for, if it is there.
ReplyFor(id) == {r \in {replies[i] : i \in 1..Len(replies)} : r.id = id}

\* barge_in calls clear_output_audio: the clear is put on the queue.
BargeStart ==
  /\ session_alive
  /\ pc # "exited"
  /\ barge.pc = "idle"
  /\ Len(cmd_rx) < CmdCap
  /\ cmd_rx' = Append(cmd_rx, SendWithResponse(issued + 1, OutputAudioBufferClear))
  /\ issued' = issued + 1
  /\ barge' = [barge EXCEPT !.pc = "clear", !.wait = issued + 1]
  /\ UNCHANGED << cfg, active_response_id, buffers, sent, queued, taken,
                  outgoing, arrived, pc, todo, stalled, replies,
                  ended, session_alive, handles, ask, mutex, client_vars, registry_vars, wire_vars >>

\* The reply to the clear is in.  On Err `?` returns it; otherwise the call
\* clones the active id under the lock and, if there is one, puts a
\* response.cancel for it on the queue.  The id itself is left as it is.
BargeAfterClear ==
  /\ barge.pc = "clear"
  /\ \E r \in ReplyFor(barge.wait) :
       LET id == active_response_id
           entry(read, cancel) ==
             [read |-> read, at |-> Len(arrived), cancel |-> cancel]
       IN IF ~r.ok
            THEN /\ barge' = [pc |-> "idle", wait |-> 0,
                              log |-> Append(barge.log, entry("unread", 0))]
                 /\ UNCHANGED << cmd_rx, issued >>
          ELSE IF id = None
            THEN /\ barge' = [pc |-> "idle", wait |-> 0,
                              log |-> Append(barge.log, entry(None, 0))]
                 /\ UNCHANGED << cmd_rx, issued >>
          ELSE /\ Len(cmd_rx) < CmdCap
               /\ cmd_rx' = Append(cmd_rx,
                               SendWithResponse(issued + 1, ResponseCancel(id)))
               /\ issued' = issued + 1
               /\ barge' = [pc |-> "cancel", wait |-> issued + 1,
                            log |-> Append(barge.log, entry(id, issued + 1))]
  /\ UNCHANGED << cfg, active_response_id, buffers, sent, queued, taken,
                  outgoing, arrived, pc, todo, stalled, replies,
                  ended, session_alive, handles, ask, mutex, client_vars, registry_vars, wire_vars >>

\* The reply to the cancel is in: barge_in returns.
BargeAfterCancel ==
  /\ barge.pc = "cancel"
  /\ ReplyFor(barge.wait) # {}
  /\ barge' = [barge EXCEPT !.pc = "idle", !.wait = 0]
  /\ UNCHANGED << cfg, active_response_id, buffers, sent, queued, taken,
                  outgoing, arrived, pc, todo, stalled, cmd_rx, issued,
                  replies, ended, session_alive, handles, ask, mutex, client_vars, registry_vars, wire_vars >>

\* ---------------------------------------------------- Session::ask
\* The conversation.item.create Session::say builds for `text`.
SayEvent(text) ==
  [type |-> "ConversationItemCreate",
   item |-> [type |-> "Message", role |-> "user",
             content |-> << [type |-> "InputText", text |-> text] >>]]

\* What an ask call returned: Err, Ok(None), or Ok(Some(text)) where text
\* is item number idx of the text stream.
AskReturn(ret, respond, idx) ==
  [ret |-> ret, text |-> ask.text, say |-> ask.say, respond |-> respond,
   idx |-> idx]

AskDone(entry) ==
  [pc |-> "idle", wait |-> 0, say |-> 0, text |-> "",
   log |-> Append(ask.log, entry)]

\* ask(text) calls say(text): the item is put on the queue, or the queue is
\* gone and `?` returns ConnectionClosed.
AskStart(text) ==
  /\ session_alive
  /\ ask.pc = "idle"
  /\ IF pc = "exited"
       THEN /\ ask' = [ask EXCEPT !.log =
                         Append(@, [ret |-> "Err", text |-> text, say |-> 0,
                                    respond |-> 0, idx |-> 0])]
            /\ UNCHANGED << cmd_rx, issued >>
       ELSE /\ Len(cmd_rx) < CmdCap
            /\ cmd_rx' = Append(cmd_rx, SendWithResponse(issued + 1, SayEvent(text)))
            /\ issued' = issued + 1
            /\ ask' = [ask EXCEPT !.pc = "say", !.wait = issued + 1,
                                  !.say = issued + 1, !.text = text]
  /\ UNCHANGED << cfg, active_response_id, buffers, sent, queued, taken,
                  outgoing, arrived, pc, todo, stalled, replies,
                  ended, session_alive, handles, barge, mutex, client_vars,
                  registry_vars, wire_vars >>

\* The reply to the item is in.  On Err `?` returns it; otherwise ask calls
\* respond(): a response.create is put on the queue.
AskAfterSay ==
  /\ ask.pc = "say"
  /\ \E r \in ReplyFor(ask.wait) :
       IF ~r.ok \/ pc = "exited"
         THEN /\ ask' = AskDone(AskReturn("Err", 0, 0))
              /\ UNCHANGED << cmd_rx, issued >>
         ELSE /\ Len(cmd_rx) < CmdCap
              /\ cmd_rx' = Append(cmd_rx, SendWithResponse(issued + 1, ResponseCreate))
              /\ issued' = issued + 1
              /\ ask' = [ask EXCEPT !.pc = "respond", !.wait = issued + 1]
  /\ UNCHANGED << cfg, active_response_id, buffers, sent, queued, taken,
                  outgoing, arrived, pc, todo, stalled, replies,
                  ended, session_alive, handles, barge, mutex, client_vars,
                  registry_vars, wire_vars >>

\* The reply to the response.create is in.  On Err `?` returns it;
\* otherwise ask calls next_text().
AskAfterRespond ==
  /\ ask.pc = "respond"
  /\ \E r \in ReplyFor(ask.wait) :
       ask' = IF r.ok THEN [ask EXCEPT !.pc = "text"]
              ELSE AskDone(AskReturn("Err", ask.wait, 0))
  /\ UNCHANGED << cfg, active_response_id, buffers, sent, queued, taken,
                  outgoing, arrived, pc, todo, stalled, cmd_rx, issued,
                  replies, ended, session_alive, handles, barge, mutex, client_vars,
                  registry_vars, wire_vars >>

\* next_text: text_rx.recv() hands over the oldest text still in the
\* channel, or None once the channel is empty and the actor is gone.
AskText ==
  /\ ask.pc = "text"
  /\ IF queued["text"] > 0
       THEN /\ queued' = [queued EXCEPT !["text"] = @ - 1]
            /\ taken' = [taken EXCEPT !["text"] = @ + 1]
            /\ ask' = AskDone(AskReturn("Some", ask.wait, taken["text"] + 1))
            /\ ended' = ended
       ELSE /\ pc = "exited"
            /\ ask' = AskDone(AskReturn("None", ask.wait, 0))
            /\ ended' = ended \cup {"text"}
            /\ UNCHANGED << queued, taken >>
  /\ UNCHANGED << cfg, active_response_id, buffers, sent, outgoing, arrived,
                  pc, todo, stalled, cmd_rx, issued, replies,
                  session_alive, handles, barge, mutex, client_vars,
                  registry_vars, wire_vars >>

\* ------------------------------------- the lock on the active id
\* The same handlers, cut at their suspension points: taking the lock,
\* one access under it, dropping the guard, and the awaits of a channel
\* send, a connection write or a command reply.
Lock == [mu |-> "lock"]
Unlock == [mu |-> "unlock"]
Store(v) == [mu |-> "store", val |-> v]
Take == [mu |-> "take", val |-> None]
Read == [mu |-> "read"]
Await(what) == [mu |-> "await", on |-> what]

\* `{ let guard = m.lock().await; <access> }`: the guard lives for one
\* access and is dropped at the end of its block or statement.
Guarded(access) == << Lock, access, Unlock >>

should_accept_response_steps == Guarded(Read)

handle_response_lifecycle_steps(evt) ==
  CASE evt.type = "ResponseCreated" ->
         Guarded(Store(evt.response_id)) \o << Await("voice_tx") >>
    [] evt.type = "ResponseDone" ->
         Guarded(Store(None)) \o << Await("voice_tx") >>
    [] OTHER -> <<>>

\* send_barge_in: take the id, write the clear, write the cancel (the
\* second write is there when an id was taken).
send_barge_in_steps ==
  Guarded(Take) \o << Await("transport"), Await("transport") >>

handle_speech_events_steps(evt, auto_barge_in) ==
  CASE evt.type = "InputAudioBufferSpeechStarted" ->
         << Await("voice_tx") >>
           \o (IF auto_barge_in THEN send_barge_in_steps ELSE <<>>)
    [] evt.type = "InputAudioBufferSpeechStopped" -> << Await("voice_tx") >>
    [] OTHER -> <<>>

handle_audio_events_steps(evt) ==
  CASE evt.type = "ResponseOutputAudioDelta" ->
         should_accept_response_steps
           \o << Await("voice_tx"), Await("audio_tx") >>
    [] evt.type = "ResponseOutputAudioDone" ->
         should_accept_response_steps \o << Await("voice_tx") >>
    [] OTHER -> <<>>

handle_transcript_events_steps(evt) ==
  IF evt.type \in {"ResponseOutputAudioTranscriptDelta",
                   "ResponseOutputAudioTranscriptDone"}
    THEN should_accept_response_steps
           \o << Await("voice_tx"), Await("transcript_tx") >>
    ELSE <<>>

handle_server_event_steps(evt, auto_barge_in) ==
  handle_response_lifecycle_steps(evt)
    \o handle_speech_events_steps(evt, auto_barge_in)
    \o handle_audio_events_steps(evt)
    \o handle_transcript_events_steps(evt)
    \o << Await("event_tx") >>

\* A barge_in that keeps the guard while its cancel goes through the queue.
barge_in_steps_HoldsGuard ==
  << Await("reply"), Lock, Read, Await("reply"), Unlock >>

\* Session::barge_in: the clear and its reply, a clone of the id under the
\* lock, the cancel and its reply.
barge_in_steps ==
  << Await("reply") >> \o Guarded(Read) \o << Await("reply") >>

\* One step of task p ("actor" or "caller").  lock().await goes through
\* when nobody holds the lock; a command's reply arrives when the actor is
\* back at its select! and takes the command; a channel send or a
\* connection write completes whenever the other side lets it.
MutexStep(p) ==
  /\ mutex[p] # <<>>
  /\ LET o == Head(mutex[p])
         rest == [mutex EXCEPT ![p] = Tail(@)]
     IN CASE o.mu = "lock" ->
               /\ mutex.holder = "none"
               /\ mutex' = [rest EXCEPT !.holder = p]
               /\ UNCHANGED active_response_id
          [] o.mu = "unlock" ->
               /\ mutex' = [rest EXCEPT !.holder = "none"]
               /\ UNCHANGED active_response_id
          [] o.mu \in {"store", "take"} ->
               /\ mutex.holder = p
               /\ active_response_id' = o.val
               /\ mutex' = rest
          [] o.mu = "read" ->
               /\ mutex.holder = p
               /\ mutex' = rest
               /\ UNCHANGED active_response_id
          [] o.mu = "await" ->
               /\ o.on = "reply" => mutex.actor = <<>>
               /\ mutex' = rest
               /\ UNCHANGED active_response_id
  /\ UNCHANGED << cfg, buffers, sent, queued, taken, outgoing, arrived, pc,
                  todo, stalled, cmd_rx, issued, replies, ended,
                  session_alive, handles, barge, ask, client_vars,
                  registry_vars, wire_vars >>

\* The select! arm for a notification starts its handler.
MutexRecv(evt) ==
  /\ mutex.actor = <<>>
  /\ mutex' = [mutex EXCEPT !.actor = handle_server_event_steps(evt, cfg.auto_barge_in),
                            !.notes = @ + 1]
  /\ UNCHANGED << cfg, active_response_id, buffers, sent, queued, taken,
                  outgoing, arrived, pc, todo, stalled, cmd_rx, issued,
                  replies, ended, session_alive, handles, barge, ask,
                  client_vars, registry_vars, wire_vars >>

\* A caller calls Session::barge_in.
MutexBargeIn ==
  /\ mutex.caller = <<>>
  /\ mutex' = [mutex EXCEPT !.caller = barge_in_steps, !.calls = @ + 1]
  /\ UNCHANGED << cfg, active_response_id, buffers, sent, queued, taken,
                  outgoing, arrived, pc, todo, stalled, cmd_rx, issued,
                  replies, ended, session_alive, handles, barge, ask,
                  client_vars, registry_vars, wire_vars >>

\* ------------------------------------------------ RealtimeClient::send
\* RealtimeClient::send(event): validate, serialize, write the frame
\* (ws_ok: whether the WebSocket takes it).
ClientSend(ws_ok) ==
  /\ pending # NoEvent
  /\ LET checked == validate_client_event(pending)
         result == IF ~checked.ok THEN checked
                   ELSE IF ws_ok THEN Sent ELSE WebSocketError
     IN /\ returned' = Append(returned, [event |-> pending, result |-> result])
        /\ stream' = IF result.ok THEN Append(stream, pending) ELSE stream
  /\ pending' = NoEvent
  /\ UNCHANGED << cfg, active_response_id, buffers, sent, queued, taken,
                  outgoing, arrived, pc, todo, stalled, cmd_rx, issued,
                  replies, caller_vars, registry_vars, wire_vars >>

\* ----------------------------------------------- ToolRegistry (tools.rs)
\* ToolRegistry::definitions
definitions == defs

\* A registration that keeps one definition per name: a name that is
\* already there has its definition replaced in place.
tool_with_description_Dedups(name, description) ==
  /\ defs' = IF \E i \in 1..Len(defs) : defs[i].name = name
               THEN [i \in 1..Len(defs) |->
                       IF defs[i].name = name
                         THEN ToolDefinition(name, Some(description))
                         ELSE defs[i]]
               ELSE Append(defs, ToolDefinition(name, Some(description)))
  /\ handlers' = [handlers EXCEPT ![name] = Len(defs) + 1]
  /\ UNCHANGED << cfg, active_response_id, buffers, sent, queued, taken,
                  outgoing, arrived, pc, todo, stalled, cmd_rx, issued,
                  replies, caller_vars, client_vars, mcp, mcp_results,
                  dispatched, wire_vars >>

\* ToolRegistry::tool_with_description, which tool (description "") and
\* tool_desc forward to: push the definition, insert the adapter.
tool_with_description(name, description) ==
  /\ defs' = Append(defs, ToolDefinition(name, Some(description)))
  /\ handlers' = [handlers EXCEPT ![name] = Len(defs) + 1]
  /\ UNCHANGED << cfg, active_response_id, buffers, sent, queued, taken,
                  outgoing, arrived, pc, todo, stalled, cmd_rx, issued,
                  replies, caller_vars, client_vars, mcp, mcp_results,
                  dispatched, wire_vars >>

\* ToolRegistry::register(tool) for a ToolSpec with the given NAME and
\* DESCRIPTION.
register(name, description) ==
  /\ defs' = Append(defs, ToolDefinition(name, description))
  /\ handlers' = [handlers EXCEPT ![name] = Len(defs) + 1]
  /\ UNCHANGED << cfg, active_response_id, buffers, sent, queued, taken,
                  outgoing, arrived, pc, todo, stalled, cmd_rx, issued,
                  replies, caller_vars, client_vars, mcp, mcp_results,
                  dispatched, wire_vars >>

\* ToolRegistry::is_empty
is_empty == Len(defs) = 0 /\ Len(mcp) = 0

\* ToolRegistry::try_as_tools: the local definitions, then the MCP ones.
try_as_tools ==
  [i \in 1..Len(defs) |-> FunctionTool(defs[i].name)]
    \o [i \in 1..Len(mcp) |-> McpTool(mcp[i])]

\* ToolRegistry::mcp_tool(config): validate, then push.
mcp_tool(config) ==
  /\ Len(mcp_results) < MaxMcpCalls
  /\ LET result == McpToolConfig_validate(config)
     IN /\ mcp' = IF result.ok THEN Append(mcp, config) ELSE mcp
        /\ mcp_results' = Append(mcp_results, [config |-> config, result |-> result])
  /\ UNCHANGED << cfg, active_response_id, buffers, sent, queued, taken,
                  outgoing, arrived, pc, todo, stalled, cmd_rx, issued,
                  replies, caller_vars, client_vars, dispatched, defs,
                  handlers, wire_vars >>

\* A caller awaits registry.dispatch(call) on a registry it holds.
Dispatch(call, user_ok, encode_ok) ==
  /\ Len(dispatched) < MaxDispatches
  /\ LET run == dispatch(Registry, call, user_ok, encode_ok)
     IN dispatched' = Append(dispatched,
                        [call |-> call, user_ok |-> user_ok,
                         encode_ok |-> encode_ok, invoked |-> run.invoked,
                         handler |-> handlers[call.name],
                         result |-> run.result])
  /\ UNCHANGED << cfg, active_response_id, buffers, sent, queued, taken,
                  outgoing, arrived, pc, todo, stalled, cmd_rx, issued,
                  replies, caller_vars, client_vars, mcp, mcp_results,
                  defs, handlers,
                  wire_vars >>

\* serde_json::from_value::<T>(value) for T = ServerEvent (what
\* RealtimeClient::next_event does with a text frame), Item or ContentPart.
FromValue(level) ==
  /\ inbound.j # "none"
  /\ deserialized' = Append(deserialized,
                        [level |-> level, value |-> inbound,
                         result |-> Deserialize(level, inbound)])
  /\ inbound' = NoValue
  /\ UNCHANGED << cfg, active_response_id, buffers, sent, queued, taken,
                  outgoing, arrived, pc, todo, stalled, cmd_rx, issued,
                  replies, caller_vars, client_vars, registry_vars,
                  serialized >>

\* serde_json::to_value(&decoded) of the oldest decoded value not yet
\* re-encoded.
ToValue ==
  /\ Len(serialized) < Len(deserialized)
  /\ serialized' =
       Append(serialized, Serialize(deserialized[Len(serialized) + 1].result.val))
  /\ UNCHANGED << cfg, active_response_id, buffers, sent, queued, taken,
                  outgoing, arrived, pc, todo, stalled, cmd_rx, issued,
                  replies, caller_vars, client_vars, registry_vars,
                  inbound, deserialized >>

\* ResponseBuilder::tools(&registry) followed by build(): the response.create
\* a caller is about to hand to RealtimeClient::send.
ResponseBuilder_tools ==
  /\ pending = NoEvent
  /\ Len(returned) < MaxSends
  /\ pending' = ResponseCreateWith(ResponseConfig(Nothing, Nothing, Nothing,
                   IF is_empty THEN Nothing ELSE Some(try_as_tools)))
  /\ UNCHANGED << cfg, active_response_id, buffers, sent, queued, taken,
                  outgoing, arrived, pc, todo, stalled, cmd_rx, issued,
                  replies, caller_vars, stream, returned, registry_vars, wire_vars >>

\* -------------------------------------------------------- termination
\* Error::ConnectionClosed, what send_event, send_raw and run_tool return
\* when the queue is closed or the one-shot sender was dropped.
ConnectionClosed == Err("Connection closed")

\* A loop that breaks while the queue and the commands in it stay behind.
ExitLoop_Leaks ==
  /\ pc' = "exited"
  /\ UNCHANGED << cfg, active_response_id, buffers, sent, queued, taken,
                  outgoing, arrived, todo, stalled, issued, cmd_rx, replies >>
  /\ UNCHANGED << caller_vars, client_vars, registry_vars, wire_vars >>

\* The loop breaks and the task ends: the transport, the five senders and
\* cmd_rx are dropped; dropping cmd_rx drops the commands still queued with
\* their one-shot senders, so their callers' rx.await fails.
ExitLoop ==
  /\ pc' = "exited"
  /\ cmd_rx' = <<>>
  /\ replies' = replies \o [i \in 1..Len(cmd_rx) |->
                   [id |-> cmd_rx[i].id, ok |-> FALSE, tool |-> ConnectionClosed]]
  /\ UNCHANGED << cfg, active_response_id, buffers, sent, queued, taken,
                  outgoing, arrived, todo, stalled, issued >>
  /\ UNCHANGED << caller_vars, client_vars, registry_vars, wire_vars >>

\* transport.next_event() yields Ok(None) or Err(_).
ConnClosed ==
  /\ pc = "select"
  /\ ExitLoop

\* A queue that counts as closed once the Session's own sender is gone.
CmdClosed_IgnoresHandles ==
  /\ pc = "select"
  /\ cmd_rx = <<>>
  /\ ~session_alive
  /\ ExitLoop

\* cmd_rx.recv() yields None: the queue is empty and every sender is gone.
CmdClosed ==
  /\ pc = "select"
  /\ cmd_rx = <<>>
  /\ ~session_alive /\ handles = 0
  /\ ExitLoop

\* send_event, send_raw or run_tool after the actor has exited:
\* self.sender.send(..) fails and the call returns ConnectionClosed.
RequestAfterExit ==
  /\ session_alive \/ handles > 0
  /\ pc = "exited"
  /\ issued' = issued + 1
  /\ replies' = Append(replies, [id |-> issued + 1, ok |-> FALSE,
                                 tool |-> ConnectionClosed])
  /\ UNCHANGED << cfg, active_response_id, buffers, sent, queued, taken,
                  outgoing, arrived, pc, todo, stalled, cmd_rx >>
  /\ UNCHANGED << caller_vars, client_vars, registry_vars, wire_vars >>

\* A reader that reports the end of the stream as soon as the actor is gone.
ReadEnd_Early(ch) ==
  /\ session_alive
  /\ pc = "exited"
  /\ ch \notin ended
  /\ ended' = ended \cup {ch}
  /\ UNCHANGED << cfg, active_response_id, buffers, sent, queued, taken,
                  outgoing, arrived, pc, todo, stalled, cmd_rx, issued,
                  replies, session_alive, handles, barge, ask, mutex, client_vars, registry_vars, wire_vars >>

\* rx.recv() on an empty channel whose sender is gone: the caller reads None.
ReadEnd(ch) ==
  /\ session_alive
  /\ pc = "exited"
  /\ queued[ch] = 0
  /\ ch \notin ended
  /\ ended' = ended \cup {ch}
  /\ UNCHANGED << cfg, active_response_id, buffers, sent, queued, taken,
                  outgoing, arrived, pc, todo, stalled, cmd_rx, issued,
                  replies, session_alive, handles, barge, ask, mutex, client_vars, registry_vars, wire_vars >>

\* The Session is dropped: its sender and its five receivers go away.
DropSession ==
  /\ session_alive
  /\ barge.pc = "idle"
  /\ session_alive' = FALSE
  /\ UNCHANGED << cfg, active_response_id, buffers, sent, queued, taken,
                  outgoing, arrived, pc, todo, stalled, cmd_rx, issued,
                  replies, ended, handles, barge, ask, mutex, client_vars, registry_vars, wire_vars >>

\* Session::handle or SessionHandle::clone.
CloneHandle ==
  /\ session_alive \/ handles > 0
  /\ handles' = handles + 1
  /\ UNCHANGED << cfg, active_response_id, buffers, sent, queued, taken,
                  outgoing, arrived, pc, todo, stalled, cmd_rx, issued,
                  replies, ended, session_alive, barge, ask, mutex, client_vars, registry_vars, wire_vars >>

DropHandle ==
  /\ handles > 0
  /\ handles' = handles - 1
  /\ UNCHANGED << cfg, active_response_id, buffers, sent, queued, taken,
                  outgoing, arrived, pc, todo, stalled, cmd_rx, issued,
                  replies, ended, session_alive, barge, ask, mutex, client_vars, registry_vars, wire_vars >>

\* ------------------------------------------------------- construction
\* No barge_in call is in progress; log lists the calls made so far.
BargeIdle == [pc |-> "idle", wait |-> 0, log |-> <<>>]

\* Nobody holds the lock and nobody is on the way to it.
Unlocked == [holder |-> "none", actor |-> <<>>, caller |-> <<>>,
             notes |-> 0, calls |-> 0]

\* No ask call is in progress; log lists what the calls so far returned.
AskIdle == [pc |-> "idle", wait |-> 0, say |-> 0, text |-> "", log |-> <<>>]

Empty == [ch \in Channels |-> 0]

Configs ==
  [auto_barge_in : BOOLEAN, auto_tool_response : BOOLEAN, on_tool_call : BOOLEAN]

\* Session::from_transport with configuration c; q is the number of unread
\* items each output channel holds when the behaviour starts.
SessionInit(c, q) ==
  /\ cfg = c
  /\ active_response_id = None
  /\ buffers = [k \in Keys |-> NoBuf]
  /\ sent = [ch \in Channels |-> <<>>]
  /\ queued = q
  /\ taken = [ch \in Channels |-> 0]
  /\ outgoing = <<>>
  /\ arrived = <<>>
  /\ pc = "select"
  /\ todo = <<>>
  /\ stalled = {}
  /\ cmd_rx = <<>>
  /\ issued = 0
  /\ replies = <<>>
  /\ ended = {}
  /\ session_alive = TRUE
  /\ handles = 0
  /\ barge = BargeIdle
  /\ ask = AskIdle
  /\ mutex = Unlocked

\* A session, and a RealtimeClient that is not being called.
InitWith(c, q) ==
  /\ SessionInit(c, q)
  /\ stream = <<>>
  /\ returned = <<>>
  /\ pending = NoEvent
  /\ mcp = <<>>
  /\ mcp_results = <<>>
  /\ dispatched = <<>>
  /\ defs = << ToolDefinition("echo", Some("")) >>
  /\ handlers = [n \in ToolNames |-> IF n = "echo" THEN 1 ELSE NoHandler]
  /\ inbound = NoValue
  /\ deserialized = <<>>
  /\ serialized = <<>>

\* ------------------------------------------ voice: lifecycle and gating
VoiceEnvs == {e \in Envs : e.user_ok /\ e.ret_call_id = "call_1"}

InitVoice ==
  \E b \in BOOLEAN :
    InitWith([auto_barge_in |-> b, auto_tool_response |-> TRUE,
              on_tool_call |-> FALSE], Empty)

NextVoice ==
  /\ Len(arrived) < MaxVoiceNotes
  /\ \E evt \in VoiceNotes, env \in VoiceEnvs : RecvEvent(evt, env)

Spec == InitVoice /\ [][NextVoice]_vars

\* -------------------------------------------------- text accumulation
DefaultConfig ==
  [auto_barge_in |-> FALSE, auto_tool_response |-> TRUE, on_tool_call |-> FALSE]

InitText == InitWith(DefaultConfig, Empty)

NextText ==
  /\ Len(arrived) < MaxTextNotes
  /\ \E evt \in TextNotes, env \in VoiceEnvs : RecvEvent(evt, env)

SpecText == InitText /\ [][NextText]_vars

\* ------------------------------------------------------- tool calls
ToolEnvs == {e \in Envs : e.w1 = e.w2}

InitTool ==
  \E a, h \in BOOLEAN :
    InitWith([auto_barge_in |-> FALSE, auto_tool_response |-> a,
              on_tool_call |-> h], Empty)

NextTool ==
  /\ Len(arrived) < MaxToolNotes
  /\ \E evt \in ToolNotes, env \in ToolEnvs : RecvEvent(evt, env)

SpecTool == InitTool /\ [][NextTool]_vars

\* ------------------------------------ fan-out, commands, back-pressure
FlowNotes ==
  { UnknownEvent, ResponseCreated("resp_1"), AudioDelta("resp_2", GoodAudio),
    FunctionCallArgumentsDone("call_1", "nope", "{\"hello\":\"world\"}"),
    FunctionCallArgumentsDone("call_1", "echo", "oops"),
    FunctionCallArgumentsDone("call_1", "echo", "{\"hello\":\"world\"}") }

FlowEnvs == {e \in Envs : e.w1 /\ e.w2 /\ e.ret_call_id = "call_1"}

\* The streams a caller may have left unread in these runs.
Lagging == {"event", "voice"}

\* A session whose caller has not read one stream for a while: that channel
\* holds all but Slack of its capacity.  (Any state with fewer unread items
\* is reached from the empty one; these are reached after Cap - Slack
\* notifications that only that stream receives go unread.)
InitFlow ==
  \E full \in SUBSET Lagging :
    /\ Cardinality(full) <= 1
    /\ InitWith(DefaultConfig,
                [ch \in Channels |-> IF ch \in full THEN Cap(ch) - Slack ELSE 0])

Reads == taken["event"] + taken["voice"]

ActorMove == Resume \/ \E w, u \in BOOLEAN : HandleCmd(w, u)

NextFlow ==
  \/ /\ Len(arrived) < MaxFlowNotes
     /\ \E evt \in FlowNotes, env \in FlowEnvs : RecvEvent(evt, env)
  \/ Resume
  \/ /\ Reads < MaxReads
     /\ \E ch \in Lagging : Consume(ch)
  \/ /\ issued < MaxCmds
     /\ EnqueueSend(ResponseCreate)
  \/ /\ issued < MaxCmds
     /\ \E call \in ToolCalls : EnqueueRunTool(call)
  \/ \E w, u \in BOOLEAN : HandleCmd(w, u)

SpecFlow == InitFlow /\ [][NextFlow]_vars

\* ------------------------------------------------- the command queue
CmdNotes ==
  { UnknownEvent,
    FunctionCallArgumentsDone("call_1", "echo", "{\"hello\":\"world\"}") }

CmdEnvs == {e \in FlowEnvs : e.user_ok}

InitCmd == InitWith(DefaultConfig, Empty)

NextCmd ==
  \/ /\ Len(arrived) < MaxCmdNotes
     /\ \E evt \in CmdNotes, env \in CmdEnvs : RecvEvent(evt, env)
  \/ /\ issued < MaxQueued
     /\ \E ev \in {ResponseCreate, UserMessage} : EnqueueSend(ev)
  \/ /\ issued < MaxQueued
     /\ \E call \in ToolCalls : EnqueueRunTool(call)
  \/ \E w, u \in BOOLEAN : HandleCmd(w, u)
  \/ ConnClosed
  \/ /\ issued < MaxQueued
     /\ RequestAfterExit

SpecCmd == InitCmd /\ [][NextCmd]_vars

\* ------------------------------------------ the end of the output streams
EndNotes ==
  { TextDone("item_1", << "a" >>), AudioDelta("resp_1", GoodAudio),
    TranscriptDelta("resp_1", << "h" >>) }

InitEnd == InitWith(DefaultConfig, Empty)

NextEnd ==
  \/ /\ Len(arrived) < MaxEndNotes
     /\ \E evt \in EndNotes, env \in CmdEnvs : RecvEvent(evt, env)
  \/ ConnClosed
  \/ \E ch \in Channels : Consume(ch)
  \/ \E ch \in Channels : ReadEnd(ch)

SpecEnd == InitEnd /\ [][NextEnd]_vars

\* ------------------------------------------------- dropping the owners
DropNotes == { UnknownEvent, TextDone("item_1", << "a" >>) }

\* The coarse channel is empty or holds all but Slack of its capacity.
InitDrop ==
  \E full \in {{}, {"event"}} :
    InitWith(DefaultConfig,
             [ch \in Channels |-> IF ch \in full THEN Cap(ch) - Slack ELSE 0])

\* What the actor task does by itself once it is polled.
ActorStep == Resume \/ (\E w, u \in BOOLEAN : HandleCmd(w, u)) \/ CmdClosed

NextDrop ==
  \/ /\ Len(arrived) < MaxDropNotes
     /\ \E evt \in DropNotes, env \in CmdEnvs : RecvEvent(evt, env)
  \/ Resume
  \/ /\ issued < MaxCmds
     /\ EnqueueSend(UserMessage)
  \/ \E w, u \in BOOLEAN : HandleCmd(w, u)
  \/ CmdClosed
  \/ DropSession
  \/ /\ handles < MaxHandles
     /\ CloneHandle
  \/ DropHandle

\* The runtime keeps polling the actor task, and a select! whose command arm
\* is ready takes it after finitely many turns.
SpecDrop == InitDrop /\ [][NextDrop]_vars /\ WF_vars(ActorStep)

\* ------------------------------------------- the caller's barge-in
BargeNotes == { ResponseCreated("resp_1"), ResponseDone("resp_1") }

InitBarge == InitWith(DefaultConfig, Empty)

NextBarge ==
  \/ /\ Len(arrived) < MaxBargeNotes
     /\ \E evt \in BargeNotes, env \in CmdEnvs : RecvEvent(evt, env)
  \/ /\ Len(barge.log) < MaxBarges
     /\ BargeStart
  \/ BargeAfterClear
  \/ BargeAfterCancel
  \/ \E w, u \in BOOLEAN : HandleCmd(w, u)

SpecBarge == InitBarge /\ [][NextBarge]_vars

\* ------------------------------------------- appended audio payloads
\* "!" stands for any byte outside the base64 alphabet and '='; "B" is a
\* character whose low bits are not zero.
AudioChars == {"A", "B", "=", "!"}

RECURSIVE Strings(_)
Strings(n) ==
  IF n = 0 THEN {<<>>}
  ELSE LET shorter == Strings(n - 1)
       IN shorter \cup {Append(t, c) : t \in {u \in shorter : Len(u) = n - 1},
                                        c \in AudioChars}

\* Leading full groups: none, one, and the two counts around the size limit.
LongGroups == {0, 1, 5242879, 5242880}

AudioEvents ==
  {InputAudioBufferAppend(g, t) : g \in LongGroups, t \in Strings(MaxTail)}

InitAudio ==
  /\ SessionInit(DefaultConfig, Empty)
  /\ stream = <<>>
  /\ returned = <<>>
  /\ pending \in AudioEvents
  /\ mcp = <<>>
  /\ mcp_results = <<>>
  /\ dispatched = <<>>
  /\ defs = << ToolDefinition("echo", Some("")) >>
  /\ handlers = [n \in ToolNames |-> IF n = "echo" THEN 1 ELSE NoHandler]
  /\ inbound = NoValue
  /\ deserialized = <<>>
  /\ serialized = <<>>

NextAudio == \E ws_ok \in BOOLEAN : ClientSend(ws_ok)

SpecAudio == InitAudio /\ [][NextAudio]_vars

\* --------------------------- RealtimeClient: commands carrying formats
Rates == {16000, 24000, 48000}
AudioFormats == {Pcm(r) : r \in Rates} \cup {Pcmu, Pcma}
Option(S) == {Nothing} \cup {Some(x) : x \in S}

AudioConfigs ==
  {AudioConfig(i, o) :
     i \in Option({InputAudioConfig(f) : f \in Option(AudioFormats)}),
     o \in Option({OutputAudioConfig(f) : f \in Option(AudioFormats)})}

ContentParts ==
  {InputText} \cup {InputAudio(f) : f \in Option(AudioFormats)}
             \cup {OutputAudio(f) : f \in Option(AudioFormats)}

\* Vec<InputItem> of at most one item, the item with one content part.
InputLists ==
  {<<>>, << ItemReference >>} \cup {<< Message(<< p >>) >> : p \in ContentParts}

FormatEvents ==
  {SessionUpdate(SessionUpdateConfig(i, o, a, Nothing)) :
     i \in Option(AudioFormats), o \in Option(AudioFormats),
     a \in Option(AudioConfigs)}
  \cup {ResponseCreateWith(ResponseConfig(f, inp, a, Nothing)) :
          f \in Option(AudioFormats), inp \in Option(InputLists),
          a \in Option(AudioConfigs)}
  \cup {ConversationItemCreate(Message(<< p >>)) : p \in ContentParts}
  \cup {ResponseCreate}

InitFormat ==
  /\ SessionInit(DefaultConfig, Empty)
  /\ stream = <<>>
  /\ returned = <<>>
  /\ pending \in FormatEvents
  /\ mcp = <<>>
  /\ mcp_results = <<>>
  /\ dispatched = <<>>
  /\ defs = << ToolDefinition("echo", Some("")) >>
  /\ handlers = [n \in ToolNames |-> IF n = "echo" THEN 1 ELSE NoHandler]
  /\ inbound = NoValue
  /\ deserialized = <<>>
  /\ serialized = <<>>

NextFormat == \E ws_ok \in BOOLEAN : ClientSend(ws_ok)

SpecFormat == InitFormat /\ [][NextFormat]_vars

\* ------------------------------ ToolRegistry and commands carrying tools
McpToolConfigs ==
  {McpToolConfig(u, c) : u \in Option({"https://mcp.example"}),
                         c \in Option({"connector_1"})}
Tools == {FunctionTool("echo")} \cup {McpTool(c) : c \in McpToolConfigs}

RECURSIVE ToolLists(_)
ToolLists(n) ==
  IF n = 0 THEN {<<>>}
  ELSE LET shorter == ToolLists(n - 1)
       IN shorter \cup {Append(l, t) : l \in {m \in shorter : Len(m) = n - 1},
                                        t \in Tools}

ToolEvents ==
  {SessionUpdate(SessionUpdateConfig(Nothing, Nothing, Nothing, t)) :
     t \in Option(ToolLists(MaxTools))}
  \cup {ResponseCreateWith(ResponseConfig(Nothing, Nothing, Nothing, t)) :
          t \in Option(ToolLists(MaxTools))}

InitRegistry ==
  /\ SessionInit(DefaultConfig, Empty)
  /\ stream = <<>>
  /\ returned = <<>>
  /\ pending \in ToolEvents
  /\ mcp = <<>>
  /\ mcp_results = <<>>
  /\ dispatched = <<>>
  /\ defs = << ToolDefinition("echo", Some("")) >>
  /\ handlers = [n \in ToolNames |-> IF n = "echo" THEN 1 ELSE NoHandler]
  /\ inbound = NoValue
  /\ deserialized = <<>>
  /\ serialized = <<>>

NextRegistry ==
  \/ \E config \in McpToolConfigs : mcp_tool(config)
  \/ ResponseBuilder_tools
  \/ \E ws_ok \in BOOLEAN : ClientSend(ws_ok)

SpecRegistry == InitRegistry /\ [][NextRegistry]_vars

\* --------------------------------------------- ToolRegistry::dispatch
DispatchCalls ==
  {[name |-> n, call_id |-> c, arguments |-> ParseArguments(a)] :
     n \in ToolNames, c \in CallIds, a \in ArgStrings}

InitDispatch == InitWith(DefaultConfig, Empty)

NextDispatch ==
  \E call \in DispatchCalls, user_ok \in BOOLEAN, encode_ok \in BOOLEAN :
    Dispatch(call, user_ok, encode_ok)

SpecDispatch == InitDispatch /\ [][NextDispatch]_vars

\* ------------------------------------------------ tool registrations
\* A registry built from ToolRegistry::new() by any registrations of two
\* names, with MCP descriptors added and calls dispatched in between.
Descriptions == {"adds"}

InitTools ==
  /\ SessionInit(DefaultConfig, Empty)
  /\ stream = <<>>
  /\ returned = <<>>
  /\ pending = NoEvent
  /\ mcp = <<>>
  /\ mcp_results = <<>>
  /\ dispatched = <<>>
  /\ defs = <<>>
  /\ handlers = [n \in ToolNames |-> NoHandler]
  /\ inbound = NoValue
  /\ deserialized = <<>>
  /\ serialized = <<>>

NextTools ==
  \/ /\ Len(defs) < MaxRegistrations
     /\ \E name \in ToolNames, description \in Descriptions :
          tool_with_description(name, description)
  \/ /\ Len(defs) < MaxRegistrations
     /\ \E name \in ToolNames, description \in Option(Descriptions) :
          register(name, description)
  \/ /\ Len(mcp_results) < MaxRemote
     /\ \E config \in {c \in McpToolConfigs : c.connector_id = Nothing} :
          mcp_tool(config)
  \/ /\ Len(dispatched) < MaxLookups
     /\ \E call \in {c \in DispatchCalls : c.call_id = "call_1"} :
          Dispatch(call, TRUE, TRUE)

SpecTools == InitTools /\ [][NextTools]_vars

\* ------------------------------------- the coarse stream, every variant
\* One notification of every variant from_server maps, and several it
\* does not.
MapNotes ==
  { TextDelta("item_1", << "a" >>), TextDone("item_2", << "b" >>),
    AudioDelta("resp_1", GoodAudio), AudioDone("resp_2"),
    TranscriptDelta("resp_1", << "h" >>),
    TranscriptDone("resp_2", << "h", "i" >>),
    ContentPartAdded("resp_1", InputText),
    ContentPartDone("resp_2", OutputAudio(Nothing)),
    FunctionCallArgumentsDelta("call_1", << "{" >>),
    FunctionCallArgumentsDone("call_2", "echo", "{\"hello\":\"world\"}"),
    InputAudioTranscriptionDelta("item_1", << "h" >>),
    InputAudioTranscriptionCompleted("item_2", << "h", "i" >>, Nothing),
    ErrorEvent,
    UnknownEvent, ResponseCreated("resp_1"), ResponseDone("resp_1"),
    SpeechStarted, SpeechStopped, InputAudioTranscriptionFailed("item_1"),
    RateLimitsUpdated }

InitMap == InitWith(DefaultConfig, Empty)

NextMap ==
  /\ Len(arrived) < MaxMapNotes
  /\ \E evt \in MapNotes, env \in VoiceEnvs : RecvEvent(evt, env)

SpecMap == InitMap /\ [][NextMap]_vars

\* ------------------------------------------- decoding and re-encoding
\* JSON values a server can send: content parts, items and notifications,
\* each well formed, with a field more, with an optional field absent or
\* null, with a field missing or ill-typed, and unrecognized.
PartValues ==
  { JObj([type |-> JStr("input_text"), text |-> JStr("hi")]),
    JObj([type |-> JStr("input_image"), image_url |-> JStr("u")]),
    JObj([type |-> JStr("input_image"), image_url |-> JStr("u"),
          detail |-> JStr("low")]),
    JObj([type |-> JStr("input_image"), image_url |-> JStr("u"),
          detail |-> JNull]),
    JObj([type |-> JStr("input_text"), text |-> JStr("hi"),
          annotations |-> JArr(<<>>)]),
    JObj([type |-> JStr("future_part"), data |-> JStr("x")]),
    JObj([type |-> JStr("input_text")]),
    JObj([type |-> JStr("input_text"), text |-> JNum("0")]),
    JStr("oops") }

ItemValues ==
  { JObj([type |-> JStr("message"), role |-> JStr("user"),
          content |-> JArr(<< p >>)]) : p \in PartValues }
  \cup
  { JObj([type |-> JStr("message"), id |-> JStr("item_1"),
          status |-> JStr("completed"), role |-> JStr("assistant"),
          content |-> JArr(<<>>)]),
    JObj([type |-> JStr("message"), role |-> JStr("robot"),
          content |-> JArr(<<>>)]),
    JObj([type |-> JStr("message"), content |-> JArr(<<>>)]),
    JObj([type |-> JStr("message"), role |-> JStr("user"),
          content |-> JStr("hi")]),
    JObj([type |-> JStr("function_call_output"), call_id |-> JStr("call_1"),
          output |-> JStr("{}")]),
    JObj([type |-> JStr("function_call_output"), call_id |-> JStr("call_1"),
          output |-> JStr("{}"), extra |-> JNum("1")]),
    JObj([type |-> JStr("future_item"), data |-> JStr("x")]),
    JNull }

TextDeltaValue(fields) ==
  JObj([type |-> JStr("response.output_text.delta")] @@ fields)

EventValues ==
  { TextDeltaValue([event_id |-> JStr("evt_1"), response_id |-> JStr("resp_1"),
                    item_id |-> JStr("item_1"), output_index |-> JNum("0"),
                    content_index |-> JNum("0"), delta |-> JStr("hi")]),
    TextDeltaValue([event_id |-> JStr("evt_1"), response_id |-> JStr("resp_1"),
                    item_id |-> JStr("item_1"), output_index |-> JNum("0"),
                    content_index |-> JNum("0"), delta |-> JStr("hi"),
                    obfuscation |-> JStr("xyz")]),
    TextDeltaValue([event_id |-> JStr("evt_1"), response_id |-> JStr("resp_1"),
                    item_id |-> JStr("item_1"), output_index |-> JNum("0"),
                    content_index |-> JNum("0")]),
    TextDeltaValue([event_id |-> JStr("evt_1"), response_id |-> JStr("resp_1"),
                    item_id |-> JStr("item_1"), output_index |-> JStr("0"),
                    content_index |-> JNum("0"), delta |-> JStr("hi")]),
    JObj([type |-> JStr("future.event"), event_id |-> JStr("evt_9"),
          payload |-> JStr("x")]),
    JObj([event_id |-> JStr("evt_9")]),
    JArr(<<>>) }
  \cup
  { JObj([type |-> JStr("conversation.item.added"), event_id |-> JStr("evt_2"),
          item |-> i]) : i \in ItemValues }
  \cup
  { JObj([type |-> JStr("conversation.item.added"), event_id |-> JStr("evt_2"),
          previous_item_id |-> prev,
          item |-> JObj([type |-> JStr("function_call_output"),
                         call_id |-> JStr("call_1"), output |-> JStr("{}")])]) :
      prev \in {JStr("item_0"), JNull, JNum("7")} }
  \cup
  { JObj([type |-> JStr("conversation.item.added"), event_id |-> JStr("evt_2")]) }
  \cup
  { JObj([type |-> JStr("response.content_part.added"),
          event_id |-> JStr("evt_3"), response_id |-> JStr("resp_1"),
          item_id |-> JStr("item_1"), output_index |-> JNum("0"),
          content_index |-> JNum("0"), part |-> p]) : p \in PartValues }

Values == EventValues \cup ItemValues \cup PartValues

InitWire ==
  /\ SessionInit(DefaultConfig, Empty)
  /\ stream = <<>>
  /\ returned = <<>>
  /\ pending = NoEvent
  /\ mcp = <<>>
  /\ mcp_results = <<>>
  /\ dispatched = <<>>
  /\ defs = << ToolDefinition("echo", Some("")) >>
  /\ handlers = [n \in ToolNames |-> IF n = "echo" THEN 1 ELSE NoHandler]
  /\ inbound \in Values
  /\ deserialized = <<>>
  /\ serialized = <<>>

NextWire ==
  \/ \E level \in Levels : FromValue(level)
  \/ ToValue

SpecWire == InitWire /\ [][NextWire]_vars

\* ------------------------------------------- errors from the server
\* Error notifications between the notifications that set the active
\* response and fill a text buffer, with send commands queued around them;
\* the caller may have left the event stream all but full.
ErrNotes ==
  { ErrorEvent, ResponseCreated("resp_1"), TextDelta("item_1", << "a" >>) }

InitErr ==
  \E q \in {0, EventCap - Slack} :
    InitWith(DefaultConfig, [ch \in Channels |-> IF ch = "event" THEN q ELSE 0])

NextErr ==
  \/ /\ Len(arrived) < MaxErrNotes
     /\ \E evt \in ErrNotes, env \in FlowEnvs : RecvEvent(evt, env)
  \/ Resume
  \/ /\ taken["event"] < MaxReads
     /\ Consume("event")
  \/ /\ issued < MaxQueued
     /\ \E ev \in {ResponseCreate, UserMessage} : EnqueueSend(ev)
  \/ \E w, u \in BOOLEAN : HandleCmd(w, u)

SpecErr == InitErr /\ [][NextErr]_vars

\* ------------------------------------------------------ asking
\* Calls of ask while completed texts arrive; the caller never reads the
\* text stream except from inside ask.
AskNotes == { TextDone("item_1", t) : t \in {<< "a" >>, << "b" >>} }

Questions == {"hi"}

InitAsk == InitWith(DefaultConfig, Empty)

NextAsk ==
  \/ /\ Len(arrived) < MaxAskNotes
     /\ \E evt \in AskNotes, env \in FlowEnvs : RecvEvent(evt, env)
  \/ /\ Len(ask.log) < MaxAsks
     /\ \E text \in Questions : AskStart(text)
  \/ AskAfterSay
  \/ AskAfterRespond
  \/ AskText
  \/ \E w, u \in BOOLEAN : HandleCmd(w, u)
  \/ ConnClosed

SpecAsk == InitAsk /\ [][NextAsk]_vars

\* ------------------------------------------- one thing at a time
\* Notifications whose handlers write two frames (a barge-in on speech
\* start, a tool call with its follow-up) among caller commands, on a
\* session with automatic barge-in whose event stream may be all but full,
\* so that a handler can be suspended after its writes.
SeqNotes ==
  { ResponseCreated("resp_1"), SpeechStarted,
    FunctionCallArgumentsDone("call_1", "echo", "{\"hello\":\"world\"}") }

InitSeq ==
  \E q \in {0, EventCap - Slack} :
    InitWith([auto_barge_in |-> TRUE, auto_tool_response |-> TRUE,
              on_tool_call |-> FALSE],
             [ch \in Channels |-> IF ch = "event" THEN q ELSE 0])

NextSeq ==
  \/ /\ Len(arrived) < MaxSeqNotes
     /\ \E evt \in SeqNotes, env \in FlowEnvs : RecvEvent(evt, env)
  \/ Resume
  \/ /\ taken["event"] < MaxReads
     /\ Consume("event")
  \/ /\ issued < MaxQueued
     /\ EnqueueSend(UserMessage)
  \/ \E w, u \in BOOLEAN : HandleCmd(w, u)

SpecSeq == InitSeq /\ [][NextSeq]_vars

\* --------------------------------------------- the order of the stages
\* One notification of each stage, on a session with automatic barge-in
\* whose voice stream or event stream may be all but full, so that a
\* handler can be seen suspended between two stages.
OrderNotes ==
  { ResponseCreated("resp_1"), SpeechStarted, AudioDelta("resp_1", GoodAudio),
    TranscriptDelta("resp_1", << "h" >>), TextDone("item_1", << "a" >>),
    FunctionCallArgumentsDone("call_1", "echo", "{\"hello\":\"world\"}") }

InitOrder ==
  \E full \in SUBSET Lagging :
    /\ Cardinality(full) <= 1
    /\ InitWith([auto_barge_in |-> TRUE, auto_tool_response |-> TRUE,
                 on_tool_call |-> FALSE],
                [ch \in Channels |-> IF ch \in full THEN Cap(ch) - Slack ELSE 0])

NextOrder ==
  \/ /\ Len(arrived) < MaxOrderNotes
     /\ \E evt \in OrderNotes, env \in FlowEnvs : RecvEvent(evt, env)
  \/ Resume
  \/ /\ Reads < MaxReads
     /\ \E ch \in Lagging : Consume(ch)

SpecOrder == InitOrder /\ [][NextOrder]_vars

\* ------------------------------------------------- refused writes
\* A connection that may refuse any frame, be it a caller's command or one
\* a handler writes (barge-in clear and cancel, tool output and follow-up),
\* and the three ways the loop can end.
FailNotes ==
  { ResponseCreated("resp_1"), SpeechStarted,
    FunctionCallArgumentsDone("call_1", "echo", "{\"hello\":\"world\"}") }

InitFail ==
  InitWith([auto_barge_in |-> TRUE, auto_tool_response |-> TRUE,
            on_tool_call |-> FALSE], Empty)

NextFail ==
  \/ /\ Len(arrived) < MaxFailNotes
     /\ \E evt \in FailNotes, env \in VoiceEnvs : RecvEvent(evt, env)
  \/ /\ issued < MaxCmds
     /\ EnqueueSend(UserMessage)
  \/ \E w, u \in BOOLEAN : HandleCmd(w, u)
  \/ ConnClosed
  \/ CmdClosed
  \/ DropSession

SpecFail == InitFail /\ [][NextFail]_vars

\* ----------------------------------------------------- lock scopes
\* The actor handling notifications that store, clear, take and read the
\* id while a caller is inside Session::barge_in, on real threads: any
\* interleaving of their steps.
LockNotes ==
  { ResponseCreated("resp_1"), ResponseDone("resp_1"), SpeechStarted,
    AudioDelta("resp_1", GoodAudio), TranscriptDelta("resp_1", << "h" >>) }

Tasks == {"actor", "caller"}

InitLock ==
  InitWith([auto_barge_in |-> TRUE, auto_tool_response |-> TRUE,
            on_tool_call |-> FALSE], Empty)

NextLock ==
  \/ /\ mutex.notes < MaxLockNotes
     /\ \E evt \in LockNotes : MutexRecv(evt)
  \/ /\ mutex.calls < MaxLockCalls
     /\ MutexBargeIn
  \/ \E p \in Tasks : MutexStep(p)

SpecLock == InitLock /\ [][NextLock]_vars

\* ------------------------------------------------ buffers that stay
\* Text deltas (one of them empty) and dones between response boundaries
\* and automatic barge-ins, with a caller's cancel going through the queue
\* and the connection closing at any point.
BufNotes ==
  { TextDelta("item_1", << "a" >>), TextDelta("item_1", <<>>),
    TextDelta("item_2", << "a" >>), TextDone("item_1", << "a" >>),
    ResponseCreated("resp_1"), ResponseDone("resp_1"), SpeechStarted }

InitBuf ==
  InitWith([auto_barge_in |-> TRUE, auto_tool_response |-> TRUE,
            on_tool_call |-> FALSE], Empty)

NextBuf ==
  \/ /\ Len(arrived) < MaxBufNotes
     /\ \E evt \in BufNotes, env \in FlowEnvs : RecvEvent(evt, env)
  \/ /\ issued < MaxCmds
     /\ EnqueueSend(ResponseCancel("resp_1"))
  \/ HandleCmd(TRUE, TRUE)
  \/ ConnClosed

SpecBuf == InitBuf /\ [][NextBuf]_vars

\* ------------------------------------------- an actor without Session
\* The Session, owner of the five receivers, is dropped at any point, also
\* while the actor waits at a push to the nearly full coarse channel; a
\* SessionHandle clone keeps the command queue open and sends through it.
OrphanNotes ==
  { ResponseCreated("resp_1"), ResponseDone("resp_1"), SpeechStarted,
    TextDone("item_1", << "a" >>),
    FunctionCallArgumentsDone("call_1", "echo", "{\"hello\":\"world\"}") }

InitOrphan ==
  \E full \in {{}, {"event"}} :
    InitWith([auto_barge_in |-> TRUE, auto_tool_response |-> TRUE,
              on_tool_call |-> FALSE],
             [ch \in Channels |-> IF ch \in full THEN Cap(ch) - Slack ELSE 0])

NextOrphan ==
  \/ /\ Len(arrived) < MaxOrphanNotes
     /\ \E evt \in OrphanNotes, env \in CmdEnvs : RecvEvent(evt, env)
  \/ Resume
  \/ /\ handles < MaxHandles
     /\ CloneHandle
  \/ DropSession
  \/ /\ issued < MaxCmds
     /\ EnqueueSend(UserMessage)
  \/ HandleCmd(TRUE, TRUE)
  \/ CmdClosed

SpecOrphan == InitOrphan /\ [][NextOrphan]_vars

\* -------------------------------------------------- run-tool commands
\* Run-tool commands for a registered and an unregistered tool, with
\* arguments the adapter takes and arguments it refuses, queued among send
\* commands while a response is in progress and a text buffer is filling.
RunNotes == { ResponseCreated("resp_1"), TextDelta("item_1", << "a" >>) }

RunCalls ==
  {[name |-> n, call_id |-> "call_1", arguments |-> ParseArguments(a)] :
     n \in ToolNames, a \in {"{\"hello\":\"world\"}", "oops"}}

InitRun == InitWith(DefaultConfig, Empty)

NextRun ==
  \/ /\ Len(arrived) < MaxRunNotes
     /\ \E evt \in RunNotes, env \in FlowEnvs : RecvEvent(evt, env)
  \/ /\ issued < MaxQueued
     /\ EnqueueSend(UserMessage)
  \/ /\ issued < MaxQueued
     /\ \E call \in RunCalls : EnqueueRunTool(call)
  \/ \E w, u \in BOOLEAN : HandleCmd(w, u)

SpecRun == InitRun /\ [][NextRun]_vars

\* ----------------------------------------------- reading the history
Handled == 1..Len(arrived)

\* What notification n put on output channel ch, in order.
ItemsOf(ch, n) ==
  LET mine(x) == x.src = n
      pick == SelectSeq(sent[ch], mine)
  IN [i \in 1..Len(pick) |-> pick[i].item]

\* The frames written to the connection while notification n was handled.
WritesOf(n) ==
  LET mine(x) == x.src = n
      pick == SelectSeq(outgoing, mine)
  IN [i \in 1..Len(pick) |-> pick[i].ev]

\* Notification n has been handled to the end.
Finished(n) == n < Len(arrived) \/ (n = Len(arrived) /\ pc # "blocked")

IsAudio(evt) ==
  evt.type \in {"ResponseOutputAudioDelta", "ResponseOutputAudioDone"}
IsTranscript(evt) ==
  evt.type \in {"ResponseOutputAudioTranscriptDelta",
                "ResponseOutputAudioTranscriptDone"}

BargedIn(n) ==
  /\ arrived[n].evt.type = "InputAudioBufferSpeechStarted"
  /\ cfg.auto_barge_in

\* ------------------------------------------------------------ claims
\* C1: with auto-barge-in enabled, a handled speech-started notification has
\* written output-audio-clear and then, exactly when an active response id R
\* was recorded, response.cancel for R, and nothing else; right after it the
\* active-response id is empty.
C1_BargeInWrites ==
  \A n \in Handled :
    BargedIn(n) /\ Finished(n) =>
      /\ WritesOf(n) =
           IF arrived[n].pre = None THEN << OutputAudioBufferClear >>
           ELSE << OutputAudioBufferClear, ResponseCancel(arrived[n].pre) >>
      /\ n = Len(arrived) => active_response_id = None

C1_Witness ==
  \E n \in Handled :
    /\ BargedIn(n) /\ arrived[n].pre = "resp_1"
    /\ WritesOf(n) = << OutputAudioBufferClear, ResponseCancel("resp_1") >>
    /\ n = Len(arrived) /\ active_response_id = None

\* C2: an audio delta for response X handled while response Y # X is active
\* puts nothing on the audio and voice channels and exactly its AudioDelta
\* event on the coarse event channel.
Mismatched(n) ==
  /\ arrived[n].pre # None
  /\ arrived[n].pre # arrived[n].evt.response_id

C2_MismatchedDelta ==
  \A n \in Handled :
    arrived[n].evt.type = "ResponseOutputAudioDelta" /\ Mismatched(n)
      /\ Finished(n) =>
      /\ ItemsOf("audio", n) = <<>>
      /\ ItemsOf("voice", n) = <<>>
      /\ ItemsOf("event", n) =
           << [kind |-> "AudioDelta",
               response_id |-> arrived[n].evt.response_id,
               item_id |-> arrived[n].evt.item_id,
               output_index |-> arrived[n].evt.output_index,
               content_index |-> arrived[n].evt.content_index,
               delta |-> arrived[n].evt.delta] >>

C2_Witness ==
  \E n \in Handled :
    /\ arrived[n].evt = AudioDelta("resp_2", GoodAudio)
    /\ arrived[n].pre = "resp_1"
    /\ Finished(n)
    /\ Len(ItemsOf("event", n)) = 1

\* C3 as claimed: an audio delta or done reaches the audio or voice channel
\* only if an active response id is recorded and equals its response id.
DeliveredAudio(n) ==
  ItemsOf("audio", n) # <<>> \/ ItemsOf("voice", n) # <<>>

StaleAfterBargeIn(n, m) ==
  /\ n < m
  /\ BargedIn(n)
  /\ arrived[n].pre # None
  /\ IsAudio(arrived[m].evt) \/ IsTranscript(arrived[m].evt)
  /\ arrived[m].evt.response_id = arrived[n].pre
  /\ \A k \in (n + 1)..(m - 1) : arrived[k].evt.type # "ResponseCreated"

C4_StaleAudioKeptOff ==
  \A n, m \in Handled :
    StaleAfterBargeIn(n, m) =>
      /\ ItemsOf("audio", m) = <<>>
      /\ ItemsOf("transcript", m) = <<>>
      /\ ItemsOf("voice", m) = <<>>

\* C5: every handled text-done has published exactly one value on the text
\* stream, the text of that notification, and nothing else is ever published
\* there; the buffer of a key holds exactly the deltas handled for the key
\* since its last text-done, and is absent when there are none.
KeyOf(evt) == << evt.item_id, evt.content_index >>

\* The buffer the deltas and dones among the first n notifications leave for k.
RECURSIVE DeltasSinceDone(_, _)
DeltasSinceDone(k, n) ==
  IF n = 0 THEN NoBuf
  ELSE LET e == arrived[n].evt
           before == DeltasSinceDone(k, n - 1)
       IN IF e.type = "ResponseOutputTextDone" /\ KeyOf(e) = k THEN NoBuf
          ELSE IF e.type = "ResponseOutputTextDelta" /\ KeyOf(e) = k
                 THEN (IF before = NoBuf THEN e.delta ELSE before \o e.delta)
          ELSE before

TextDones == {n \in Handled : arrived[n].evt.type = "ResponseOutputTextDone"}

C5_TextDone ==
  /\ \A n \in TextDones :
       Finished(n) => ItemsOf("text", n) = << arrived[n].evt.text >>
  /\ pc = "select" =>
       /\ Len(sent["text"]) = Cardinality(TextDones)
       /\ \A k \in Keys : buffers[k] = DeltasSinceDone(k, Len(arrived))

\* Two deltas "a", a done with text "b", then a delta: one value "b" was
\* published and the buffer holds the one new delta.
C5_Witness ==
  /\ Len(arrived) = 4
  /\ arrived[1].evt = TextDelta("item_1", << "a" >>)
  /\ arrived[2].evt = TextDelta("item_1", << "a" >>)
  /\ arrived[3].evt = TextDone("item_1", << "b" >>)
  /\ arrived[4].evt = TextDelta("item_1", << "a" >>)
  /\ sent["text"] = << [src |-> 3, item |-> << "b" >>] >>
  /\ buffers[<< "item_1", 0 >>] = << "a" >>

ToolCallNotes ==
  {n \in Handled : arrived[n].evt.type = "ResponseFunctionCallArgumentsDone"}

\* The function-call-output items written while notification n was handled.
OutputsOf(n) ==
  LET isOutput(ev) ==
        ev.type = "ConversationItemCreate" /\ ev.item.type = "FunctionCallOutput"
      pick == SelectSeq(WritesOf(n), isOutput)
  IN [i \in 1..Len(pick) |-> pick[i].item]

FollowUpsOf(n) ==
  {i \in 1..Len(WritesOf(n)) : WritesOf(n)[i].type = "ResponseCreate"}

\* C6: every handled function-call-arguments-done has written exactly one
\* function-call-output item to the connection, and the call id of the item
\* is the call id of the notification, whether the registry or a
\* caller-supplied handler produced the result and whether it is Ok or Err.
C6_CallIdKept ==
  \A n \in ToolCallNotes :
    Finished(n) =>
      /\ Len(OutputsOf(n)) = 1
      /\ OutputsOf(n)[1].call_id = arrived[n].evt.call_id

\* C7 as claimed: a handled function-call-arguments-done is followed by a
\* response.create on the connection exactly when auto_tool_response is set.
C7_Claimed ==
  \A n \in ToolCallNotes :
    Finished(n) => (FollowUpsOf(n) # {} <=> cfg.auto_tool_response)

\* C7 as amended: a handled function-call-arguments-done has written a
\* response.create exactly when auto_tool_response is set and the tool call
\* succeeded; the response.create is then the last frame of the handler and
\* comes right after the function-call-output.
C7_FollowUp ==
  \A n \in ToolCallNotes :
    Finished(n) =>
      /\ FollowUpsOf(n) # {} <=>
           (cfg.auto_tool_response /\ arrived[n].result.ok)
      /\ \A i \in FollowUpsOf(n) :
           /\ i = Len(WritesOf(n))
           /\ i = 2
           /\ WritesOf(n)[1].type = "ConversationItemCreate"

\* With auto_tool_response set, a successful call was followed up and a
\* failed one was not.
C7_Witness ==
  /\ cfg.auto_tool_response
  /\ \E n, m \in ToolCallNotes :
       /\ Finished(n) /\ Finished(m)
       /\ arrived[n].result.ok /\ FollowUpsOf(n) = {2}
       /\ ~arrived[m].result.ok /\ FollowUpsOf(m) = {}
       /\ Len(OutputsOf(m)) = 1

\* C8: a handled function-call-arguments-done whose tool call failed
\* (unknown name, arguments that do not decode, handler error) has written
\* one function-call-output whose payload is an error object and nothing
\* else, and the actor is back at its select: a queued command can be
\* answered and, once the current handler is over, the actor is at select.
FailedCalls == {n \in ToolCallNotes : ~arrived[n].result.ok}

C8_ToolFailure ==
  \A n \in FailedCalls :
    Finished(n) =>
      /\ Len(WritesOf(n)) = 1
      /\ Len(OutputsOf(n)) = 1
      /\ OutputsOf(n)[1].output.error_object
      /\ OutputsOf(n)[1].output.text = arrived[n].result.error
      /\ n = Len(arrived) =>
           /\ pc = "select"
           /\ cmd_rx # <<>> => ENABLED HandleCmd(TRUE, TRUE)

\* After a failed call wrote its error output, a later notification was
\* handled to the end and a later send command was forwarded and answered.
C8_Witness ==
  \E n \in FailedCalls, m \in Handled :
    /\ n < m /\ Finished(m)
    /\ OutputsOf(n)[1].output.error_object
    /\ ItemsOf("event", m) # <<>>
    /\ \E i, j \in 1..Len(outgoing) :
         i < j /\ outgoing[i].src = n /\ outgoing[j].cmd # 0
    /\ replies # <<>>

\* C9 as claimed: whatever stream the caller leaves unread, the actor can go
\* on by itself: it can finish the notification in hand and answer the next
\* queued command without any stream being read.
C9_Claimed ==
  (pc = "blocked" \/ cmd_rx # <<>>) => ENABLED ActorMove

\* The push the actor is suspended at finds its channel full.
WaitingOnFull ==
  /\ pc = "blocked"
  /\ queued[Head(todo).ch] >= Cap(Head(todo).ch)

\* C9 as amended: every output channel is bounded and a full one holds the
\* actor back.  No channel ever holds more than its capacity; the actor
\* suspends only at a push; while the channel of that push is full the actor
\* takes no step at all (no delivery on any channel, no reply to a queued
\* command); as soon as the channel has room the push can go on, and at
\* select every queued command can be answered.
C9_BackPressure ==
  /\ \A ch \in Channels : queued[ch] <= Cap(ch)
  /\ pc = "blocked" => todo # <<>> /\ Head(todo).op = "push"
  /\ WaitingOnFull => ~ENABLED ActorMove
  /\ pc = "blocked" /\ ~WaitingOnFull => ENABLED Resume
  /\ pc = "select" /\ cmd_rx # <<>> => ENABLED ActorMove

\* The actor waits on one full stream with a command queued behind it while
\* another stream is empty.
C9_Witness ==
  /\ WaitingOnFull
  /\ cmd_rx # <<>>
  /\ replies = <<>>
  /\ \E ch \in Lagging : queued[ch] = 0

\* C10: every notification handled to the end has put exactly one event on
\* the coarse stream (a Raw event carrying the notification when it is
\* unrecognized, an AudioDelta event when it is an audio delta, gated or
\* not), a notification still in hand at most one, and the events are there
\* in the order the notifications arrived; a notification that had to wait
\* for room lost nothing.
C10_EveryEventOnce ==
  /\ \A n \in Handled :
       /\ Len(ItemsOf("event", n)) <= 1
       /\ Finished(n) => Len(ItemsOf("event", n)) = 1
       /\ Finished(n) /\ arrived[n].evt.type = "Unknown" =>
            ItemsOf("event", n)[1] = [kind |-> "Raw", raw |-> arrived[n].evt]
       /\ Finished(n) /\ arrived[n].evt.type = "ResponseOutputAudioDelta" =>
            ItemsOf("event", n)[1].kind = "AudioDelta"
  /\ \A i, j \in 1..Len(sent["event"]) :
       i < j => sent["event"][i].src < sent["event"][j].src

\* An audio delta rejected by the gate found the coarse channel full, waited,
\* and its event is on the stream after the room was made.
C10_Witness ==
  \E n \in Handled :
    /\ arrived[n].evt.type = "ResponseOutputAudioDelta"
    /\ Mismatched(n)
    /\ n \in stalled
    /\ Finished(n)
    /\ Len(ItemsOf("event", n)) = 1
    /\ ItemsOf("voice", n) = <<>>
    /\ \E m \in Handled : m < n /\ Len(ItemsOf("event", m)) = 1

\* The frames the actor forwarded for queued commands, in the order written.
Forwarded ==
  LET fromQueue(x) == x.cmd # 0
  IN SelectSeq(outgoing, fromQueue)

RepliesTo(id) == {i \in 1..Len(replies) : replies[i].id = id}
StillQueued(id) == \E i \in 1..Len(cmd_rx) : cmd_rx[i].id = id

\* C11: the frames of queued commands reach the connection in the order the
\* commands were enqueued, each at most once; a command is either still
\* queued or has exactly one reply, and the reply to a forwarded command
\* carries the result the connection gave for that frame.
C11_QueueOrder ==
  /\ \A i, j \in 1..Len(Forwarded) :
       i < j => Forwarded[i].cmd < Forwarded[j].cmd
  /\ \A id \in 1..issued :
       IF StillQueued(id) THEN RepliesTo(id) = {}
       ELSE Cardinality(RepliesTo(id)) = 1
  /\ \A i \in 1..Len(Forwarded) :
       \E j \in RepliesTo(Forwarded[i].cmd) :
         /\ replies[j].ok = Forwarded[i].ok
         /\ replies[j].tool = NoResult
  /\ \A i, j \in 1..Len(replies) :
       i < j /\ replies[i].tool # ConnectionClosed
             /\ replies[j].tool # ConnectionClosed => replies[i].id < replies[j].id

\* Two send commands were forwarded in order, the first accepted and the
\* second refused by the connection, with the frames of a tool call written
\* in between, and each caller got the result of its own frame.
C11_Witness ==
  /\ Len(Forwarded) = 2
  /\ Forwarded[1].ok /\ ~Forwarded[2].ok
  /\ \E i, j, k \in 1..Len(outgoing) :
       /\ i < j /\ j < k
       /\ outgoing[i].cmd = 1 /\ outgoing[j].src # 0 /\ outgoing[k].cmd = 2
  /\ replies = << [id |-> 1, ok |-> TRUE, tool |-> NoResult],
                  [id |-> 2, ok |-> FALSE, tool |-> NoResult] >>

\* C12: an end-of-stream or a read error of the connection, seen at select,
\* makes the loop exit; after the exit every output stream still hands out
\* the items it holds and only then reports its end, so a stream that has
\* ended has handed out everything that was ever pushed to it.
C12_StreamsEnd ==
  /\ pc = "select" => ENABLED ConnClosed
  /\ \A ch \in Channels : Len(sent[ch]) = taken[ch] + queued[ch]
  /\ \A ch \in ended :
       /\ pc = "exited"
       /\ queued[ch] = 0
       /\ taken[ch] = Len(sent[ch])
  /\ pc = "exited" =>
       \A ch \in Channels \ ended :
         IF queued[ch] > 0
           THEN ENABLED Consume(ch) /\ ~ENABLED ReadEnd(ch)
           ELSE ENABLED ReadEnd(ch)

\* After the exit the transcript stream (never written) has ended, the text
\* stream has ended after its one item was read, and the coarse stream still
\* holds two unread events.
C12_Witness ==
  /\ pc = "exited"
  /\ {"transcript", "text"} \subseteq ended
  /\ taken["text"] = 1
  /\ queued["event"] = 2
  /\ "event" \notin ended

ClosedReply(id) == [id |-> id, ok |-> FALSE, tool |-> ConnectionClosed]

\* C13: no request is left waiting by an exited actor.  Once the actor has
\* exited the queue is empty and every request made so far has its one
\* reply; the step that exits answers every command still queued with
\* ConnectionClosed, in queue order, and forwards none of them; a request
\* made after the exit is answered ConnectionClosed at once.
C13_Resolved ==
  pc = "exited" =>
    /\ cmd_rx = <<>>
    /\ \A id \in 1..issued : Cardinality(RepliesTo(id)) = 1
    /\ ENABLED RequestAfterExit

C13_ExitStep ==
  pc # "exited" /\ pc' = "exited" =>
    /\ replies' = replies \o [i \in 1..Len(cmd_rx) |-> ClosedReply(cmd_rx[i].id)]
    /\ outgoing' = outgoing

C13_LateRequest ==
  pc = "exited" /\ issued' # issued =>
    /\ issued' = issued + 1
    /\ replies' = Append(replies, ClosedReply(issued + 1))
    /\ outgoing' = outgoing

C13_NoHang ==
  /\ [](C13_Resolved)
  /\ [][C13_ExitStep /\ C13_LateRequest]_vars

\* The connection ended with command 1 still queued, and request 2 was made
\* afterwards: both callers hold ConnectionClosed and nothing was forwarded.
C13_Witness ==
  /\ pc = "exited"
  /\ arrived # <<>>
  /\ issued = 2
  /\ replies = << ClosedReply(1), ClosedReply(2) >>
  /\ Forwarded = <<>>

AllDropped == ~session_alive /\ handles = 0

\* C14: once the Session and every SessionHandle are dropped the actor
\* terminates although the connection stays open: from then on the actor can
\* always take a step of its own (no push waits on a channel nobody reads),
\* and it ends up exited.
C14_CanMove == AllDropped /\ pc # "exited" => ENABLED ActorStep

C14_Terminates ==
  /\ [](C14_CanMove)
  /\ AllDropped ~> pc = "exited"

\* The owners were dropped while the actor waited at a push to the full
\* coarse channel with a command queued; the actor has exited, and the
\* connection never ended.
C14_Witness ==
  /\ AllDropped
  /\ pc = "exited"
  /\ stalled # {}
  /\ replies # <<>>
  /\ Len(arrived) = MaxDropNotes

\* C15: Session::barge_in has the clear written first and then, if an active
\* response id R is recorded, a response.cancel for R, and it clears the
\* active id: a later barge_in with no response-created in between finds no
\* active id and has no further cancel written.
NoneCreatedBetween(a, b) ==
  \A n \in (a + 1)..b : arrived[n].evt.type # "ResponseCreated"

C15_BargeInClears ==
  \A k, j \in 1..Len(barge.log) :
    /\ k < j
    /\ barge.log[k].read \in Rids
    /\ barge.log[j].read # "unread"
    /\ NoneCreatedBetween(barge.log[k].at, barge.log[j].at)
    => /\ barge.log[j].read = None
       /\ barge.log[j].cancel = 0

\* The active-response id notification n left behind.
ActiveLeftBy(n) ==
  IF n < Len(arrived) THEN arrived[n + 1].pre ELSE active_response_id

\* C16: a handled response-created with id R leaves R as the active id and
\* has emitted the voice event ResponseCreated(R); a handled response-done
\* leaves no active id and has emitted ResponseDone with the id of the done
\* response; speech-started under auto-barge-in leaves no active id; every
\* other notification leaves the active id as it found it.
C16_Lifecycle ==
  \A n \in Handled :
    Finished(n) =>
      LET evt == arrived[n].evt
      IN CASE evt.type = "ResponseCreated" ->
                /\ ActiveLeftBy(n) = evt.response_id
                /\ ItemsOf("voice", n) =
                     << [kind |-> "ResponseCreated",
                         response_id |-> evt.response_id] >>
           [] evt.type = "ResponseDone" ->
                /\ ActiveLeftBy(n) = None
                /\ ItemsOf("voice", n) =
                     << [kind |-> "ResponseDone",
                         response_id |-> evt.response_id] >>
           [] BargedIn(n) -> ActiveLeftBy(n) = None
           [] OTHER -> ActiveLeftBy(n) = arrived[n].pre

\* With resp_1 active, response-done for resp_2 was handled: the id is
\* cleared and the event carries resp_2; an audio delta before it had left
\* the id alone.
C16_Witness ==
  \E n, m \in Handled :
    /\ n < m /\ Finished(m)
    /\ arrived[n].evt.type = "ResponseOutputAudioDelta"
    /\ arrived[n].pre = "resp_1" /\ ActiveLeftBy(n) = "resp_1"
    /\ arrived[m].evt = ResponseDone("resp_2")
    /\ arrived[m].pre = "resp_1" /\ ActiveLeftBy(m) = None
    /\ ItemsOf("voice", m) =
         << [kind |-> "ResponseDone", response_id |-> "resp_2"] >>

\* C17: a handled audio-transcript delta that passes the gate (no active id
\* recorded, or the recorded id equals its response id) has published one
\* transcript chunk with its delta and is_final = FALSE; a done that passes
\* the gate one chunk with the transcript of the notification and
\* is_final = TRUE; a transcript notification whose response id differs
\* from the recorded active id has published no transcript chunk and no
\* voice event.
Chunk(evt, text, final) ==
  [response_id |-> evt.response_id, item_id |-> evt.item_id,
   content_index |-> evt.content_index, text |-> text, is_final |-> final]

PassesGate(n) ==
  arrived[n].pre = None \/ arrived[n].pre = arrived[n].evt.response_id

C17_Transcript ==
  \A n \in Handled :
    IsTranscript(arrived[n].evt) /\ Finished(n) =>
      LET evt == arrived[n].evt
      IN IF PassesGate(n)
           THEN /\ Len(ItemsOf("voice", n)) = 1
                /\ ItemsOf("transcript", n) =
                     IF evt.type = "ResponseOutputAudioTranscriptDelta"
                       THEN << Chunk(evt, evt.delta, FALSE) >>
                       ELSE << Chunk(evt, evt.transcript, TRUE) >>
           ELSE /\ ItemsOf("transcript", n) = <<>>
                /\ ItemsOf("voice", n) = <<>>

\* With resp_1 active, a transcript done for resp_1 was published as a final
\* chunk carrying "hi" and a transcript delta for resp_2 was published
\* nowhere but on the coarse stream.
C17_Witness ==
  \E n, m \in Handled :
    /\ Finished(n) /\ Finished(m)
    /\ arrived[n].evt = TranscriptDone("resp_1", << "h", "i" >>)
    /\ arrived[n].pre = "resp_1"
    /\ ItemsOf("transcript", n)[1].is_final
    /\ ItemsOf("transcript", n)[1].text = << "h", "i" >>
    /\ arrived[m].evt = TranscriptDelta("resp_2", << "h" >>)
    /\ arrived[m].pre = "resp_1"
    /\ ItemsOf("transcript", m) = <<>>
    /\ Len(ItemsOf("event", m)) = 1

\* The appended payload of this behaviour, before and after the call.
Payload ==
  IF pending # NoEvent THEN pending.audio ELSE returned[1].event.audio

\* The payload written out, for payloads short enough to decode here.
Expand(audio) ==
  [i \in 1..(4 * audio.groups) |-> "A"] \o audio.tail

Pads(audio) == Cardinality({i \in 1..Len(audio.tail) : audio.tail[i] = "="})

\* Length a multiple of 4, base64 characters only, and at most two '=',
\* all of them at the very end.
EndsInPadding(audio) ==
  /\ ByteLen(audio) % 4 = 0
  /\ Pads(audio) <= 2
  /\ \A i \in 1..Len(audio.tail) :
       IF i > Len(audio.tail) - Pads(audio) THEN audio.tail[i] = "="
       ELSE IsB64Char(audio.tail[i])

DecodedSize(audio) == (ByteLen(audio) \div 4) * 3 - Pads(audio)

AppendCalls ==
  {i \in 1..Len(returned) : returned[i].event.type = "InputAudioBufferAppend"}

Rejected(i) == returned[i].result.kind = "InvalidClientEvent"

\* C18: a send of an input_audio_buffer.append whose payload is well formed
\* and decodes to more than 15 * 1024 * 1024 bytes returns InvalidClientEvent
\* and writes no frame; one that decodes to exactly 15 * 1024 * 1024 bytes is
\* not refused and its frame is written when the WebSocket takes it.
C18_SizeLimit ==
  \A i \in AppendCalls :
    LET audio == returned[i].event.audio
    IN EndsInPadding(audio) =>
         /\ DecodedSize(audio) > 15 * 1024 * 1024 =>
              Rejected(i) /\ stream = <<>>
         /\ DecodedSize(audio) = 15 * 1024 * 1024 =>
              /\ ~Rejected(i)
              /\ returned[i].result.ok => stream = << returned[i].event >>

\* A payload of 5242880 full groups and "AA==" decodes to one byte more than
\* the limit: the call returned InvalidClientEvent and no frame was written.
C18_Witness ==
  /\ returned # <<>>
  /\ returned[1].event =
       InputAudioBufferAppend(5242880, << "A", "A", "=", "=" >>)
  /\ DecodedSize(returned[1].event.audio) = 15 * 1024 * 1024 + 1
  /\ Rejected(1)
  /\ stream = <<>>

\* C19: for every payload whose length is a multiple of 4 and whose only
\* non-alphabet characters are 0, 1 or 2 trailing '=',
\* estimate_base64_decoded_len succeeds with (length / 4) * 3 - padding,
\* the subtraction does not go below zero, and whenever the payload decodes
\* the decoded bytes are exactly that many; the empty payload gives 0.
C19_Estimate ==
  LET est == estimate_base64_decoded_len(Payload)
  IN EndsInPadding(Payload) =>
       /\ est.ok
       /\ ~est.underflow
       /\ est.size >= 0
       /\ est.size = (ByteLen(Payload) \div 4) * 3 - Pads(Payload)
       /\ ByteLen(Payload) = 0 => est.size = 0
       /\ Payload.groups <= 1 =>
            LET decoded == B64Decode(Expand(Payload))
            IN decoded.ok => Len(decoded.bytes) = est.size

\* The eight characters "AAAAAAA=" were sent: the estimate is 5 and the
\* payload decodes to 5 bytes.
C19_Witness ==
  /\ returned # <<>>
  /\ Payload = [groups |-> 1, tail |-> << "A", "A", "A", "=" >>]
  /\ estimate_base64_decoded_len(Payload).size = 5
  /\ B64Decode(Expand(Payload)).ok
  /\ Len(B64Decode(Expand(Payload)).bytes) = 5
  /\ returned[1].result.kind # "InvalidClientEvent"

\* C20: an appended payload is refused with InvalidClientEvent exactly when
\* its length is not a multiple of 4, or it holds a character that is
\* neither in the base64 alphabet nor '=', or a character other than '='
\* comes after a '=', or it holds more than two '=', or it decodes to more
\* than 15 MiB; any other payload passes the validation.
IllFormed(audio) ==
  \/ ByteLen(audio) % 4 # 0
  \/ \E i \in 1..Len(audio.tail) :
       audio.tail[i] # "=" /\ ~IsB64Char(audio.tail[i])
  \/ \E i, j \in 1..Len(audio.tail) :
       i < j /\ audio.tail[i] = "=" /\ audio.tail[j] # "="
  \/ Pads(audio) > 2

C20_Rejected ==
  \A i \in AppendCalls :
    LET audio == returned[i].event.audio
    IN /\ Rejected(i) <=>
            (IllFormed(audio) \/ DecodedSize(audio) > 15 * 1024 * 1024)
       /\ ~Rejected(i) => returned[i].result \in {Sent, WebSocketError}
       /\ Rejected(i) => stream = <<>>

\* "A=A=" has its length a multiple of 4, two '=' and only valid characters,
\* but a character after a '=': it was refused.
C20_Witness ==
  /\ returned # <<>>
  /\ returned[1].event = InputAudioBufferAppend(0, << "A", "=", "A", "=" >>)
  /\ Rejected(1)
  /\ stream = <<>>

\* ------------------------------------------------ C21: PCM rate
\* The formats carried in an Option<AudioConfig>.
InAudioConfig(audio) ==
  IF ~IsSome(audio) THEN {}
  ELSE UNION {IF IsSome(side) /\ IsSome(side[1].format) THEN {side[1].format[1]}
              ELSE {} : side \in {audio[1].input, audio[1].output}}

\* The formats carried in the audio content parts of an item.
InItem(item) ==
  IF item.type = "Message" /\ "content" \in DOMAIN item
    THEN {item.content[k].format[1] :
            k \in {j \in 1..Len(item.content) :
                     /\ item.content[j].type \in {"input_audio", "output_audio"}
                     /\ IsSome(item.content[j].format)}}
  ELSE {}

\* The format objects an outbound command carries, at the places named.
FormatsIn(event) ==
  IF event.type = "SessionUpdate"
    THEN LET c == event.session.config
         IN {f[1] : f \in {g \in {c.input_audio_format, c.output_audio_format} :
                             IsSome(g)}}
            \cup InAudioConfig(c.audio)
  ELSE IF event.type = "ResponseCreate" /\ "response" \in DOMAIN event
    THEN InAudioConfig(event.response.audio)
         \cup (IF IsSome(event.response.input)
                 THEN UNION {InItem(event.response.input[1][k]) :
                               k \in 1..Len(event.response.input[1])}
               ELSE {})
  ELSE IF event.type = "ConversationItemCreate"
    THEN InItem(event.item)
  ELSE {}

WrongRate(f) == f.type = "audio/pcm" /\ f.rate # 24000

\* C21: a send of a command that carries, at any of the places named, a PCM
\* format whose rate is not 24000 returns InvalidClientEvent and writes no
\* frame; a command whose formats are all PCMU, PCMA or PCM at 24000 is not
\* refused.
C21_WrongRateRejected ==
  \A i \in 1..Len(returned) :
    LET formats == FormatsIn(returned[i].event)
    IN /\ (\E f \in formats : WrongRate(f)) => Rejected(i) /\ stream = <<>>
       /\ (formats # {} /\ \A f \in formats : ~WrongRate(f)) => ~Rejected(i)

\* ------------------------------------------- C22: MCP configurations
Neither(config) == ~IsSome(config.server_url) /\ ~IsSome(config.connector_id)

\* The MCP configurations in the tools list of a session.update or a
\* response.create.
McpConfigsIn(event) ==
  LET tools == IF event.type = "SessionUpdate" THEN event.session.config.tools
               ELSE IF event.type = "ResponseCreate" /\ "response" \in DOMAIN event
                 THEN event.response.tools
               ELSE Nothing
  IN IF IsSome(tools)
       THEN {tools[1][k].config : k \in {j \in 1..Len(tools[1]) :
                                           tools[1][j].type = "mcp"}}
     ELSE {}

C22_State ==
  /\ \A i \in 1..Len(mcp_results) :
       mcp_results[i].result.ok <=> ~Neither(mcp_results[i].config)
  /\ \A k \in 1..Len(mcp) : ~Neither(mcp[k])
  /\ \A i \in 1..Len(returned) :
       Rejected(i) <=> \E c \in McpConfigsIn(returned[i].event) : Neither(c)
  /\ \A k \in 1..Len(stream) : \A c \in McpConfigsIn(stream[k]) : ~Neither(c)

C22_Step ==
  /\ (mcp_results' # mcp_results /\ ~mcp_results'[Len(mcp_results')].result.ok)
       => mcp' = mcp
  /\ (returned' # returned /\ ~returned'[Len(returned')].result.ok)
       => stream' = stream

\* C22: mcp_tool returns Ok exactly for a configuration with a server URL or
\* a connector id, a call that returns an error leaves the registry as it
\* was, and the registry never holds a configuration with neither; a send of
\* a session.update or response.create is refused exactly when its tools
\* list holds an MCP configuration with neither, a refused send writes
\* nothing, and no frame written carries such a configuration.
C22_McpValidated == [](C22_State) /\ [][C22_Step]_vars

\* mcp_tool was refused for a configuration with neither field and accepted
\* for one with only a connector id, which is the only one stored; a send
\* whose tools list held a configuration with neither was refused, and the
\* response.create built from the registry was written.
C22_Witness ==
  /\ Len(mcp_results) = 2
  /\ Neither(mcp_results[1].config) /\ ~mcp_results[1].result.ok
  /\ mcp = << McpToolConfig(Nothing, Some("connector_1")) >>
  /\ Len(returned) = 2
  /\ \E c \in McpConfigsIn(returned[1].event) : Neither(c)
  /\ Rejected(1)
  /\ returned[2].result.ok
  /\ stream = << ResponseCreateWith(ResponseConfig(Nothing, Nothing, Nothing,
                   Some(<< FunctionTool("echo"),
                           McpTool(McpToolConfig(Nothing, Some("connector_1"))) >>))) >>

\* -------------------------------------------------- C23: dispatch
\* C23: a dispatch of a call whose name has no registered handler, or whose
\* arguments do not decode into the handler's argument type, returns an
\* error and the user handler was not invoked; a dispatch whose handler
\* returned Ok returns a ToolResult with the call id of the call, and every
\* ToolResult returned carries that call id.
C23_Dispatch ==
  \A i \in 1..Len(dispatched) :
    LET d == dispatched[i]
        known == d.call.name \in Registry
        decodes == d.call.arguments.kind = "object"
    IN /\ ~known => ~d.result.ok /\ ~d.invoked
       /\ (known /\ ~decodes) => ~d.result.ok /\ ~d.invoked
       /\ (known /\ decodes /\ d.user_ok /\ d.encode_ok) =>
            /\ d.invoked
            /\ d.result.ok
            /\ d.result.call_id = d.call.call_id
            /\ d.result.output = d.call.arguments
       /\ d.result.ok => d.result.call_id = d.call.call_id

\* One dispatch of an unknown name and one of a registered tool with
\* arguments that decode, whose handler returned Ok for call_2.
C23_Witness ==
  /\ Len(dispatched) = 2
  /\ dispatched[1].call.name = "nope" /\ ~dispatched[1].result.ok
  /\ dispatched[2].call.name = "echo" /\ dispatched[2].call.call_id = "call_2"
  /\ dispatched[2].invoked /\ dispatched[2].result.ok
  /\ dispatched[2].result.call_id = "call_2"

\* ------------------------------------------- C24: from_server
\* The coarse event each mapped notification variant is said to become, with
\* the fields it is said to carry.
CoarseOf ==
  [ResponseOutputTextDelta |->
     [kind |-> "TextDelta",
      fields |-> {"response_id", "item_id", "output_index", "content_index", "delta"}],
   ResponseOutputTextDone |->
     [kind |-> "TextDone",
      fields |-> {"response_id", "item_id", "output_index", "content_index", "text"}],
   ResponseOutputAudioDelta |->
     [kind |-> "AudioDelta",
      fields |-> {"response_id", "item_id", "output_index", "content_index", "delta"}],
   ResponseOutputAudioDone |->
     [kind |-> "AudioDone",
      fields |-> {"response_id", "item_id", "output_index", "content_index", "item"}],
   ResponseOutputAudioTranscriptDelta |->
     [kind |-> "TranscriptDelta",
      fields |-> {"response_id", "item_id", "output_index", "content_index", "delta"}],
   ResponseOutputAudioTranscriptDone |->
     [kind |-> "TranscriptDone",
      fields |-> {"response_id", "item_id", "output_index", "content_index",
                  "transcript"}],
   ResponseContentPartAdded |->
     [kind |-> "ContentPartAdded",
      fields |-> {"response_id", "item_id", "output_index", "content_index", "part"}],
   ResponseContentPartDone |->
     [kind |-> "ContentPartDone",
      fields |-> {"response_id", "item_id", "output_index", "content_index", "part"}],
   ResponseFunctionCallArgumentsDelta |->
     [kind |-> "ToolCallDelta",
      fields |-> {"response_id", "item_id", "output_index", "call_id", "delta"}],
   ResponseFunctionCallArgumentsDone |->
     [kind |-> "ToolCall",
      fields |-> {"response_id", "item_id", "output_index", "call_id", "name",
                  "arguments"}],
   InputAudioTranscriptionDelta |->
     [kind |-> "InputTranscriptionDelta",
      fields |-> {"item_id", "content_index", "delta"}],
   InputAudioTranscriptionCompleted |->
     [kind |-> "InputTranscriptionCompleted",
      fields |-> {"item_id", "content_index", "transcript", "usage"}],
   Error |-> [kind |-> "Error", fields |-> {"event_id", "error"}]]

\* C24: from_server returns Some for every notification, so each handled
\* notification has put exactly one event on the coarse stream; for the
\* thirteen mapped variants it is the variant's own coarse event, whose
\* fields are exactly the ids and payload named and equal the
\* notification's; for every other notification, Unknown included, it is
\* Raw holding the notification as it arrived.
C24_Mapping ==
  /\ \A evt \in MapNotes : IsSome(from_server(evt))
  /\ \A n \in Handled :
       LET evt == arrived[n].evt
           items == ItemsOf("event", n)
       IN Finished(n) =>
            /\ Len(items) = 1
            /\ IF evt.type \in DOMAIN CoarseOf
                 THEN /\ items[1].kind = CoarseOf[evt.type].kind
                      /\ DOMAIN items[1] = CoarseOf[evt.type].fields \cup {"kind"}
                      /\ \A f \in CoarseOf[evt.type].fields : items[1][f] = evt[f]
                 ELSE items[1] = [kind |-> "Raw", raw |-> evt]
  /\ \A t1, t2 \in DOMAIN CoarseOf :
       t1 # t2 => CoarseOf[t1].kind # CoarseOf[t2].kind

\* An error notification and then an unrecognized one have been handled: the
\* stream holds the Error event with the notification's error, then Raw.
C24_Witness ==
  /\ Len(arrived) = 2
  /\ arrived[1].evt = ErrorEvent
  /\ arrived[2].evt = UnknownEvent
  /\ ItemsOf("event", 1) =
       << [kind |-> "Error", event_id |-> "evt_err", error |-> ErrorEvent.error] >>
  /\ ItemsOf("event", 2) = << [kind |-> "Raw", raw |-> UnknownEvent] >>

\* ------------------------------------- C25, C26: decode and re-encode
\* C25: every notification value that was decoded as a ServerEvent and
\* encoded again gave back the value it was decoded from, whether it was
\* recognized (also with a field more, or with an optional field absent) or
\* classified Unknown.
C25_RoundTrip ==
  \A i \in 1..Len(serialized) :
    deserialized[i].level = "event" => serialized[i] = deserialized[i].value

\* The JSON type a field of the given kind must have for the typed decode.
WellTyped(kind, v) ==
  CASE kind = "str" -> v.j = "str"
    [] kind = "num" -> v.j = "num"
    [] kind = "role" -> v.j = "str" /\ v.v \in Roles
    [] kind = "status" -> v.j = "str" /\ v.v \in Statuses
    [] kind = "parts" -> v.j = "arr"
    [] OTHER -> TRUE

\* The typed decode at this level takes the value: its discriminator is one
\* of the level's, no required field is missing, no field is ill-typed.
Recognized(level, value) ==
  /\ value.j = "obj"
  /\ "type" \in DOMAIN value.fields
  /\ value.fields["type"].j = "str"
  /\ \E k \in DOMAIN Repr(level) :
       /\ Repr(level)[k].tag = value.fields["type"].v
       /\ \A n \in DOMAIN Repr(level)[k].fields :
            LET ty == Repr(level)[k].fields[n]
            IN IF n \in DOMAIN value.fields
                 THEN \/ ty.optional /\ value.fields[n].j = "null"
                      \/ WellTyped(ty.kind, value.fields[n])
               ELSE ty.optional

\* What a decode of value at level must have given, at that level alone.
AtLevel(level, value, typed) ==
  IF Recognized(level, value) THEN typed.variant # "Unknown"
  ELSE typed = Unknown(value)

\* C26: no decode of a JSON value as a ServerEvent, an Item or a ContentPart
\* returned an error; the result is Unknown holding the value unchanged
\* exactly when the typed decode at that level does not take it; and the
\* same holds one and two levels down, for the item or content part inside
\* a recognized notification and the content parts inside a recognized
\* item, whatever the outcome at the other levels.
C26_NeverFails ==
  \A i \in 1..Len(deserialized) :
    LET d == deserialized[i]
        typed == d.result.val
        PartsOk(itemValue, item) ==
          (item.variant = "Message") =>
            /\ Len(item.f.content) = Len(itemValue.fields.content.items)
            /\ \A j \in 1..Len(item.f.content) :
                 AtLevel("part", itemValue.fields.content.items[j],
                         item.f.content[j])
    IN /\ d.result.ok
       /\ AtLevel(d.level, d.value, typed)
       /\ typed.variant = "ConversationItemAdded" =>
            /\ AtLevel("item", d.value.fields.item, typed.f.item)
            /\ PartsOk(d.value.fields.item, typed.f.item)
       /\ typed.variant = "ResponseContentPartAdded" =>
            AtLevel("part", d.value.fields.part, typed.f.part)
       /\ d.level = "item" => PartsOk(d.value, typed)

\* A conversation.item.added whose item is a message holding an
\* unrecognized content part was decoded as a ServerEvent: the notification
\* and the item are typed and the part is Unknown with its JSON.
C26_Witness ==
  \E i \in 1..Len(deserialized) :
    LET d == deserialized[i]
    IN /\ d.level = "event"
       /\ d.result.val.variant = "ConversationItemAdded"
       /\ d.result.val.f.item.variant = "Message"
       /\ d.result.val.f.item.f.content =
            << Unknown(JObj([type |-> JStr("future_part"), data |-> JStr("x")])) >>

\* The notification being handled (or handled last) is a top-level error.
ErrorInHand(a) == a # <<>> /\ a[Len(a)].evt.type = "Error"

C27_State ==
  /\ pc # "exited"
  /\ \A n \in Handled :
       arrived[n].evt.type = "Error" =>
         /\ Finished(n) =>
              ItemsOf("event", n) =
                << [kind |-> "Error", event_id |-> arrived[n].evt.event_id,
                    error |-> arrived[n].evt.error] >>
         /\ WritesOf(n) = <<>>
         /\ \A ch \in Channels \ {"event"} : ItemsOf(ch, n) = <<>>
  /\ \A i \in 1..Len(replies) :
       /\ replies[i].tool = NoResult
       /\ \E j \in 1..Len(outgoing) :
            /\ outgoing[j].cmd = replies[i].id
            /\ outgoing[j].ok = replies[i].ok
  /\ pc = "select" /\ cmd_rx # <<>> =>
       \A w \in BOOLEAN : ENABLED HandleCmd(w, TRUE)

C27_Step ==
  /\ ErrorInHand(arrived') /\ arrived' # arrived =>
       /\ active_response_id' = active_response_id
       /\ buffers' = buffers
       /\ cmd_rx' = cmd_rx
       /\ replies' = replies
       /\ outgoing' = outgoing
  /\ ErrorInHand(arrived) /\ pc = "blocked" =>
       /\ active_response_id' = active_response_id
       /\ buffers' = buffers
       /\ replies' = replies
       /\ outgoing' = outgoing

\* C27: a top-level error notification is published as an Error event on
\* the event stream and nowhere else; handling it writes nothing to the
\* connection, never ends the actor, leaves the active-response id, the
\* text buffers and the command queue as they were, and every send
\* command, queued before or after it, is still taken up and answered with
\* the result the connection gave for its frame.
C27_ErrorIsHarmless == [](C27_State) /\ [][C27_Step]_vars

\* An error has just been handled while a response was in progress, a text
\* buffer was filled and a send command was waiting in the queue, and a
\* command answered after the error got the connection's Ok.
C27_Witness ==
  /\ ErrorInHand(arrived)
  /\ pc = "select"
  /\ arrived[Len(arrived)].pre = "resp_1"
  /\ active_response_id = "resp_1"
  /\ \E k \in Keys : buffers[k] # NoBuf
  /\ cmd_rx # <<>>
  /\ \E i \in 1..Len(replies) : replies[i].ok

\* The actor takes a run-tool command off the queue in this step.
TakesRunTool ==
  /\ pc = "select" /\ pc' # "exited"
  /\ cmd_rx # <<>> /\ Head(cmd_rx).kind = "RunTool"
  /\ cmd_rx' = Tail(cmd_rx)

\* C28: the step that handles a run-tool command appends one reply, which
\* carries the command's id and what ToolRegistry::dispatch returns for the
\* command's call; it writes nothing to the connection, publishes nothing,
\* and leaves the active-response id and the text buffers as they were.
C28_Step ==
  TakesRunTool =>
    /\ \E u \in BOOLEAN :
         LET c == Head(cmd_rx)
             result == dispatch(Registry, c.call, u, TRUE).result
         IN replies' = Append(replies,
                              [id |-> c.id, ok |-> result.ok, tool |-> result])
    /\ outgoing' = outgoing
    /\ sent' = sent
    /\ active_response_id' = active_response_id
    /\ buffers' = buffers

C28_RunTool == [][C28_Step]_vars

\* Two run-tool commands were answered, one with the registry's Ok carrying
\* the call id and one with its "unknown tool" error, while a response was
\* in progress and a text buffer held text; nothing was written.
C28_Witness ==
  /\ \E i \in 1..Len(replies) :
       replies[i].tool = Ok("call_1", ParseArguments("{\"hello\":\"world\"}"))
  /\ \E i \in 1..Len(replies) :
       replies[i].tool = Err("Invalid client event: unknown tool")
  /\ active_response_id = "resp_1"
  /\ \E k \in Keys : buffers[k] # NoBuf
  /\ outgoing = <<>>

\* The place in `outgoing` of the frame of queued command id.
FrameOf(id) == {j \in 1..Len(outgoing) : outgoing[j].cmd = id}

\* The texts published after frame j was written: their numbers on the
\* text stream.
TextsAfter(j) ==
  {i \in 1..Len(sent["text"]) : sent["text"][i].src > outgoing[j].at}

AskedAndAnswered ==
  {k \in 1..Len(ask.log) : ask.log[k].ret = "Some"}

\* C29: an ask call that returns a text wrote a conversation.item.create
\* carrying its text and after it a response.create, and the text it
\* returns is the first one published on the text stream after that
\* response.create was written.
C29_AskReturnsItsAnswer ==
  \A k \in AskedAndAnswered :
    LET e == ask.log[k]
    IN \E i \in FrameOf(e.say), j \in FrameOf(e.respond) :
         /\ i < j
         /\ outgoing[i].ev = SayEvent(e.text)
         /\ outgoing[j].ev = ResponseCreate
         /\ e.idx \in TextsAfter(j)
         /\ \A m \in TextsAfter(j) : e.idx <= m

\* The frames one notification's handler wrote are next to each other.
Contiguous ==
  \A i, k \in 1..Len(outgoing) :
    i < k /\ outgoing[i].src # 0 /\ outgoing[i].src = outgoing[k].src =>
      \A j \in i..k : outgoing[j].src = outgoing[i].src

\* The frames written in this step.
NewFrames == SubSeq(outgoing', Len(outgoing) + 1, Len(outgoing'))

\* While a notification is in hand, from the step that picks it up to the
\* step that finishes its handler, every frame written is one its handler
\* wrote, no command is taken off the queue and none is answered.
C30_Step ==
  /\ Len(outgoing') >= Len(outgoing)
  /\ SubSeq(outgoing', 1, Len(outgoing)) = outgoing
  /\ arrived' # arrived \/ pc = "blocked" =>
       /\ \A j \in 1..Len(NewFrames) :
            NewFrames[j].src = Len(arrived') /\ NewFrames[j].cmd = 0
       /\ Len(cmd_rx') >= Len(cmd_rx)
       /\ SubSeq(cmd_rx', 1, Len(cmd_rx)) = cmd_rx
       /\ replies' = replies
  /\ pc = "blocked" => arrived' = arrived
  /\ arrived' = arrived /\ pc = "select" =>
       /\ Len(NewFrames) <= 1
       /\ \A j \in 1..Len(NewFrames) : NewFrames[j].src = 0

\* C30: the actor is inside at most one handler at a time, so the frames a
\* notification's handler writes sit next to each other on the connection,
\* and no frame of a queued command is written from the moment a
\* notification is picked up until its handler has finished, however long
\* the handler waits for room on an output stream.
C30_OneAtATime == [](Contiguous) /\ [][C30_Step]_vars

\* A barge-in wrote its clear and its cancel between the frames of two
\* caller commands, and its handler had to wait for room on the event stream
\* before it finished.
C30_Witness ==
  \E n \in stalled, i \in 1..Len(outgoing) :
    /\ i + 3 <= Len(outgoing)
    /\ outgoing[i].cmd = 1
    /\ outgoing[i + 1].src = n /\ outgoing[i + 1].ev = OutputAudioBufferClear
    /\ outgoing[i + 2].src = n /\ outgoing[i + 2].ev = ResponseCancel("resp_1")
    /\ outgoing[i + 3].cmd = 2
    /\ arrived[n].evt = SpeechStarted

\* The stage of handle_server_event a step belongs to: 1 lifecycle,
\* 2 speech boundary, 3 audio, 4 transcript, 5 generic fan-out, 6 text,
\* 7 tool.
Stage(o, evt) ==
  CASE o.op = "set_active" ->
         IF evt.type \in {"ResponseCreated", "ResponseDone"} THEN 1 ELSE 2
    [] o.op = "write" ->
         IF o.ev.type \in {"OutputAudioBufferClear", "ResponseCancel"} THEN 2 ELSE 7
    [] o.op = "call" -> IF o.what = "on_raw_event" THEN 5 ELSE 7
    [] o.op \in {"buf_append", "buf_remove"} -> 6
    [] o.op = "push" ->
         CASE o.ch = "audio" -> 3
           [] o.ch = "transcript" -> 4
           [] o.ch = "event" -> 5
           [] o.ch = "text" -> 6
           [] o.ch = "voice" ->
                CASE o.item.kind \in {"ResponseCreated", "ResponseDone"} -> 1
                  [] o.item.kind \in {"SpeechStarted", "SpeechStopped"} -> 2
                  [] o.item.kind \in {"AudioDelta", "AudioDone", "DecodeError"} -> 3
                  [] OTHER -> 4

\* The steps of one handler run stage by stage; within the fan-out the
\* coarse event comes before the raw callback, and within the tool stage
\* the tool runs before anything is written.
InStageOrder(ops, evt) ==
  \A i, j \in 1..Len(ops) :
    i < j =>
      /\ Stage(ops[i], evt) <= Stage(ops[j], evt)
      /\ ~(ops[i].op = "call" /\ ops[j].op = "push" /\ ops[j].ch = "event")
      /\ ~(Stage(ops[i], evt) = 7 /\ ops[i].op = "write" /\ ops[j].op = "call")

\* The step that picks a notification up runs, up to a suspension, the
\* steps of a handler that are in stage order, whether the tool returns Ok
\* or Err.
C31_Step ==
  arrived' # arrived =>
    \A env \in FlowEnvs :
      InStageOrder(handle_server_event(arrived'[Len(arrived')].evt, Ctx, env),
                   arrived'[Len(arrived')].evt)

\* What can be seen of the order: a notification whose coarse event is out,
\* or whose handler waits to put it out, has its voice items out and its
\* barge-in written and has written no tool output unless the event is out;
\* a handler that waits to put out a voice item has put out no coarse event
\* and written nothing for a tool.
C31_State ==
  \A n \in Handled :
    LET evt == arrived[n].evt
        waitsOn(ch) == n = Len(arrived) /\ pc = "blocked" /\ Head(todo).ch = ch
        fannedOut == ItemsOf("event", n) # <<>> \/ waitsOn("event")
    IN /\ fannedOut /\ evt.type \in {"ResponseCreated", "InputAudioBufferSpeechStarted",
                                      "ResponseOutputAudioDelta",
                                      "ResponseOutputAudioTranscriptDelta"} =>
            ItemsOf("voice", n) # <<>>
       /\ fannedOut /\ evt.type = "InputAudioBufferSpeechStarted" =>
            /\ WritesOf(n) # <<>>
            /\ WritesOf(n)[1] = OutputAudioBufferClear
            /\ arrived[n].pre # None =>
                 /\ Len(WritesOf(n)) = 2
                 /\ WritesOf(n)[2] = ResponseCancel(arrived[n].pre)
       /\ OutputsOf(n) # <<>> => ItemsOf("event", n) # <<>>
       /\ ItemsOf("text", n) # <<>> => ItemsOf("event", n) # <<>>
       /\ waitsOn("voice") => ItemsOf("event", n) = <<>> /\ OutputsOf(n) = <<>>
       /\ waitsOn("event") => OutputsOf(n) = <<>> /\ ItemsOf("text", n) = <<>>

\* C31: every handler runs its steps in the order lifecycle, speech
\* boundary, audio, transcript, fan-out, text, tool: the voice item of a
\* notification is enqueued and the barge-in frames are written before its
\* coarse event is enqueued, and for a tool call the coarse event is
\* enqueued and the raw callback reached before the tool runs and before
\* the function-call-output is written.
C31_StageOrder == [](C31_State) /\ [][C31_Step]_vars

\* A speech start with a response in progress has written its clear and
\* cancel and put out its voice item, and waits for room on the event
\* stream with its coarse event not yet out.
C31_Witness ==
  /\ pc = "blocked"
  /\ Head(todo).ch = "event"
  /\ arrived[Len(arrived)].evt = SpeechStarted
  /\ Len(WritesOf(Len(arrived))) = 2
  /\ ItemsOf("voice", Len(arrived)) # <<>>
  /\ ItemsOf("event", Len(arrived)) = <<>>

\* Notification n is a speech boundary that does not barge in.
QuietBoundary(evt) ==
  \/ evt.type = "InputAudioBufferSpeechStopped"
  \/ evt.type = "InputAudioBufferSpeechStarted" /\ ~cfg.auto_barge_in

PairedVoiceEvent(evt) ==
  IF evt.type = "InputAudioBufferSpeechStopped"
    THEN [kind |-> "SpeechStopped", audio_end_ms |-> evt.audio_end_ms]
    ELSE [kind |-> "SpeechStarted", audio_start_ms |-> evt.audio_start_ms]

C32_State ==
  \A n \in Handled :
    QuietBoundary(arrived[n].evt) =>
      /\ WritesOf(n) = <<>>
      /\ \A ch \in Channels \ {"voice", "event"} : ItemsOf(ch, n) = <<>>
      /\ Finished(n) =>
           /\ ItemsOf("voice", n) = << PairedVoiceEvent(arrived[n].evt) >>
           /\ ItemsOf("event", n) = << [kind |-> "Raw", raw |-> arrived[n].evt] >>

C32_Step ==
  arrived' # arrived /\ QuietBoundary(arrived'[Len(arrived')].evt) =>
    /\ active_response_id' = active_response_id
    /\ buffers' = buffers
    /\ outgoing' = outgoing

\* C32: a speech-stopped notification, and a speech-started notification
\* on a session without automatic barge-in, put out the paired voice event
\* and the coarse event and nothing else: no frame is written and the
\* active-response id stays as it was.
C32_QuietBoundary == [](C32_State) /\ [][C32_Step]_vars

\* With automatic barge-in off, speech started and then stopped while
\* response resp_1 was in progress; it still is and nothing was written.
C32_Witness ==
  \E n, m \in Handled :
    /\ n < m /\ Finished(m)
    /\ ~cfg.auto_barge_in
    /\ arrived[n].evt = SpeechStarted /\ arrived[n].pre = "resp_1"
    /\ arrived[m].evt = SpeechStopped /\ arrived[m].pre = "resp_1"
    /\ active_response_id = "resp_1"
    /\ outgoing = <<>>

\* The frames the connection refused in this step.
RefusedNow ==
  {j \in Len(outgoing) + 1..Len(outgoing') : ~outgoing'[j].ok}

\* Notification n wrote every frame its handler has to write.
WroteAll(n) ==
  CASE arrived[n].evt.type = "InputAudioBufferSpeechStarted" ->
         /\ Len(WritesOf(n)) = IF arrived[n].pre = None THEN 1 ELSE 2
         /\ WritesOf(n)[1] = OutputAudioBufferClear
    [] arrived[n].evt.type = "ResponseFunctionCallArgumentsDone" ->
         /\ Len(OutputsOf(n)) = 1
         /\ arrived[n].result.ok => Cardinality(FollowUpsOf(n)) = 1
    [] OTHER -> WritesOf(n) = <<>>

C33_State ==
  /\ \A n \in Handled : WroteAll(n)
  /\ \A j \in 1..Len(outgoing) :
       IF outgoing[j].cmd # 0
         THEN \E i \in RepliesTo(outgoing[j].cmd) :
                replies[i].ok = outgoing[j].ok
         ELSE RepliesTo(outgoing[j].cmd) = {}
  /\ Len(replies) <= issued
  /\ pc = "select" /\ cmd_rx # <<>> => ENABLED HandleCmd(TRUE, TRUE)

C33_Step ==
  /\ RefusedNow # {} =>
       /\ pc' # "exited"
       /\ buffers' = buffers
       /\ \A j \in RefusedNow : outgoing'[j].cmd # 0 =>
            active_response_id' = active_response_id
       /\ \A j \in RefusedNow : outgoing'[j].cmd = 0 =>
            /\ replies' = replies
            /\ active_response_id' =
                 ActiveAfter(handle_voice_events(arrived'[Len(arrived')].evt, Ctx,
                                                 [w1 |-> TRUE, w2 |-> TRUE,
                                                  user_ok |-> TRUE,
                                                  ret_call_id |-> "call_1"]),
                             active_response_id)
  /\ pc # "exited" /\ pc' = "exited" =>
       /\ outgoing' = outgoing
       /\ arrived' = arrived

\* C33: a frame the connection refuses never ends the actor.  The caller
\* of a queued send gets the refusal as its reply; a refusal of a frame a
\* handler wrote reaches nobody, and the handler goes on to write its next
\* frame and leaves the actor's state as it would be had the frame been
\* accepted.  The step that ends the loop never writes a frame: it is the
\* end of the inbound stream, a read error, or the queue closing.
C33_RefusedWrites == [](C33_State) /\ [][C33_Step]_vars

\* The connection refused both frames of a barge-in and then the frame of
\* a caller's command, whose caller holds the error; the actor is still in
\* its loop.
C33_Witness ==
  \E n \in Handled :
    /\ arrived[n].evt = SpeechStarted
    /\ Len(outgoing) = 3
    /\ outgoing[1].src = n /\ ~outgoing[1].ok
    /\ outgoing[2].src = n /\ ~outgoing[2].ok
    /\ outgoing[3].cmd = 1 /\ ~outgoing[3].ok
    /\ replies = << [id |-> 1, ok |-> FALSE, tool |-> NoResult] >>
    /\ pc = "select"

\* The response.cancel frames written so far: their places in `outgoing`.
Cancels == {j \in 1..Len(outgoing) : outgoing[j].ev.type = "ResponseCancel"}

\* The active-response id at the moment frame j was written: for a frame a
\* handler wrote, the id that handler found (and took); for a command's
\* frame, the id the last notification handled before it left behind.
ActiveWhenWritten(j) ==
  IF outgoing[j].src # 0 THEN arrived[outgoing[j].src].pre
  ELSE IF outgoing[j].at = 0 THEN None
  ELSE ActiveLeftBy(outgoing[j].at)

\* The response-done for response rid was handled before frame j was
\* written, and no response-created for rid after it.
DoneBefore(rid, j) ==
  \E m \in 1..outgoing[j].at :
    /\ m # outgoing[j].src
    /\ arrived[m].evt.type = "ResponseDone"
    /\ arrived[m].evt.response_id = rid
    /\ \A k \in (m + 1)..outgoing[j].at :
         ~(arrived[k].evt.type = "ResponseCreated"
           /\ arrived[k].evt.response_id = rid)

\* C34: every response.cancel on the connection names the response that
\* was active when the frame was written (or that the writing handler had
\* just taken), and none names a response whose response-done had already
\* been handled, also for the cancels Session::barge_in sends.
C34_CancelIsCurrent ==
  \A j \in Cancels :
    /\ outgoing[j].ev.response_id = ActiveWhenWritten(j)
    /\ ~DoneBefore(outgoing[j].ev.response_id, j)

\* C35: once a response-done has been handled, whatever response it names
\* and whatever response was active, no response is active after it nor
\* after any later notification, up to the next response-created.
C35_DoneClearsAny ==
  \A n, m \in Handled :
    /\ n <= m
    /\ arrived[n].evt.type = "ResponseDone"
    /\ NoneCreatedBetween(n, m)
    => ActiveLeftBy(m) = None

\* Response resp_2 was created, then the response-done of the older resp_1
\* arrived: no response is active, and an audio delta of resp_2 handled
\* after it found none and left none.
C35_Witness ==
  /\ Len(arrived) = 3
  /\ arrived[1].evt = ResponseCreated("resp_2")
  /\ arrived[2].evt = ResponseDone("resp_1") /\ arrived[2].pre = "resp_2"
  /\ arrived[3].evt = AudioDelta("resp_2", GoodAudio) /\ arrived[3].pre = None
  /\ active_response_id = None

\* Task p is suspended in the await of a send, a write or a reply.
Awaiting(p) == mutex[p] # <<>> /\ Head(mutex[p]).mu = "await"

\* Task p is about to touch the id.
Accessing(p) ==
  mutex[p] # <<>> /\ Head(mutex[p]).mu \in {"store", "take", "read"}

\* C36: a task that is suspended in the await of a channel send, a
\* connection write or a command reply does not hold the lock on the
\* active-response id; the holder is always one step from its single
\* access or from dropping the guard, so a task waiting for the lock gets
\* it and the two tasks never wait for each other; and the id is touched
\* only under the lock, once per guard.
C36_LockScopes ==
  /\ \A p \in Tasks : Awaiting(p) => mutex.holder # p
  /\ \A p \in Tasks :
       mutex.holder = p =>
         /\ mutex[p] # <<>>
         /\ \/ Head(mutex[p]).mu = "unlock"
            \/ Accessing(p) /\ mutex[p][2].mu = "unlock"
  /\ \A p \in Tasks : Accessing(p) => mutex.holder = p
  /\ (\E p \in Tasks : mutex[p] # <<>>) => \E p \in Tasks : ENABLED MutexStep(p)

\* The caller inside barge_in is waiting for the lock while the actor,
\* in its speech-started handler, holds it and is about to take the id.
C36_Witness ==
  /\ mutex.holder = "actor"
  /\ Head(mutex.actor).mu = "take"
  /\ mutex.caller # <<>> /\ Head(mutex.caller).mu = "lock"
  /\ active_response_id = "resp_1"

\* The notifications handled so far that are text deltas for key k with no
\* text-done for k after them.
OpenDeltas(k) ==
  {n \in Handled :
     /\ arrived[n].evt.type = "ResponseOutputTextDelta"
     /\ KeyOf(arrived[n].evt) = k
     /\ \A m \in Handled :
          m > n => ~(/\ arrived[m].evt.type = "ResponseOutputTextDone"
                     /\ KeyOf(arrived[m].evt) = k)}

C37_State ==
  pc # "blocked" => \A k \in Keys : (buffers[k] # NoBuf) <=> (OpenDeltas(k) # {})

\* Only the handling of a text delta or a text-done changes a buffer.
C37_Step ==
  (buffers' # buffers) =>
     /\ Len(arrived') = Len(arrived) + 1
     /\ arrived'[Len(arrived')].evt.type
          \in {"ResponseOutputTextDelta", "ResponseOutputTextDone"}

\* C37: between handlers, a key has a buffer exactly when a text delta for
\* it was handled with no text-done for it since; nothing but a text delta
\* or a text-done changes a buffer, so response-done, barge-in, a cancel
\* command and the end of the loop leave every buffer as it was.
C37_BuffersStay == []C37_State /\ [][C37_Step]_vars

\* An empty delta for item_1, then response-done, and a cancel written
\* for a caller: the key still has its (empty) buffer when the loop ends.
C37_Witness ==
  /\ pc = "exited"
  /\ Len(arrived) = 3
  /\ arrived[1].evt = TextDelta("item_1", <<>>)
  /\ arrived[2].evt = SpeechStarted
  /\ arrived[3].evt = ResponseDone("resp_1")
  /\ \E i \in 1..Len(outgoing) :
       outgoing[i].cmd # 0 /\ outgoing[i].ev = ResponseCancel("resp_1")
  /\ buffers[<< "item_1", 0 >>] = <<>>

\* The Session is gone and a SessionHandle clone is still there.
Orphaned == ~session_alive /\ handles > 0

\* The frames the step has written.
Written == [i \in 1..(Len(outgoing') - Len(outgoing)) |-> outgoing'[Len(outgoing) + i].ev]

C38_State ==
  Orphaned =>
    /\ pc # "exited"
    /\ pc = "blocked" => ENABLED Resume
    /\ pc \in {"select", "blocked"}

\* What a notification handled by the orphaned actor does.
C38_Notification ==
  Orphaned /\ Len(arrived') = Len(arrived) + 1 =>
    LET e == arrived'[Len(arrived')].evt
    IN /\ pc' = "select"
       /\ sent' = sent /\ queued' = queued
       /\ CASE e.type = "ResponseCreated" ->
                 active_response_id' = e.response_id /\ Written = <<>>
            [] e.type = "ResponseDone" ->
                 active_response_id' = None /\ Written = <<>>
            [] e.type = "InputAudioBufferSpeechStarted" ->
                 /\ active_response_id' = None
                 /\ Written = IF active_response_id = None
                                THEN << OutputAudioBufferClear >>
                                ELSE << OutputAudioBufferClear,
                                        ResponseCancel(active_response_id) >>
            [] e.type = "ResponseFunctionCallArgumentsDone" ->
                 /\ active_response_id' = active_response_id
                 /\ LET result == arrived'[Len(arrived')].result
                    IN Written =
                         IF result.ok
                           THEN << FunctionCallOutput(result.call_id,
                                                      JsonToString(result.output)),
                                   ResponseCreate >>
                           ELSE << FunctionCallOutput(e.call_id,
                                                      ErrorJson(result.error)) >>
            [] OTHER -> active_response_id' = active_response_id /\ Written = <<>>

\* A handler that was waiting when the Session went away runs to its end,
\* and nothing more is queued.
C38_Resumed ==
  Orphaned /\ pc = "blocked" /\ pc' # "blocked" =>
    pc' = "select" /\ sent' = sent /\ queued' = queued

\* C38: with the Session dropped and a SessionHandle clone alive the actor
\* has not exited: it is at its select!, or in a handler that waited at a
\* push before the Session went away and can now go on.  A notification it
\* handles then has its usual effect on the active id and on the frames
\* written (tool output and follow-up, barge-in clear and cancel), puts
\* nothing on any output channel and ends without waiting.
C38_OrphanedActor ==
  /\ []C38_State
  /\ [][C38_Notification /\ C38_Resumed]_vars

\* The Session was dropped with a clone alive while the coarse channel was
\* nearly full; afterwards a response was created and a tool call ran: the
\* id is recorded, both frames are written, nothing was queued.
C38_Witness ==
  /\ Orphaned
  /\ pc = "select"
  /\ Len(arrived) = 2
  /\ arrived[1].evt = ResponseCreated("resp_1")
  /\ arrived[2].evt.type = "ResponseFunctionCallArgumentsDone"
  /\ active_response_id = "resp_1"
  /\ Len(outgoing) = 2
  /\ queued["event"] = EventCap - Slack
  /\ \A ch \in Channels : sent[ch] = <<>>

\* The number of the latest registration of name, 0 when there is none.
LatestFor(name) ==
  LET regs == {i \in 1..Len(defs) : defs[i].name = name}
  IN IF regs = {} THEN NoHandler ELSE CHOOSE i \in regs : \A j \in regs : j <= i

\* The MCP descriptors accepted so far, in the order of the calls.
RECURSIVE Accepted(_)
Accepted(n) ==
  IF n = 0 THEN <<>>
  ELSE IF mcp_results[n].result.ok
         THEN Append(Accepted(n - 1), mcp_results[n].config)
         ELSE Accepted(n - 1)

C39_State ==
  /\ \A i \in 1..Len(definitions) : definitions[i].name \in Registry
  /\ \A name \in ToolNames : handlers[name] = LatestFor(name)
  /\ Len(try_as_tools) = Len(defs) + Len(Accepted(Len(mcp_results)))
  /\ \A i \in 1..Len(defs) : try_as_tools[i] = FunctionTool(defs[i].name)
  /\ \A i \in 1..Len(Accepted(Len(mcp_results))) :
       try_as_tools[Len(defs) + i] = McpTool(Accepted(Len(mcp_results))[i])

\* A registration appends one definition, whether or not the name is
\* there already, and leaves the earlier ones in place; a dispatch runs
\* the adapter of the latest registration of the name.
C39_Step ==
  /\ handlers' # handlers =>
       /\ Len(defs') = Len(defs) + 1
       /\ \A i \in 1..Len(defs) : defs'[i] = defs[i]
       /\ handlers'[defs'[Len(defs')].name] = Len(defs')
  /\ dispatched' # dispatched =>
       LET d == dispatched'[Len(dispatched')]
       IN /\ d.handler = LatestFor(d.call.name)
          /\ d.invoked <=> (d.handler # NoHandler /\ d.call.arguments.kind = "object")

\* C39: every name in definitions() has a handler, and the handler stored
\* for a name is the one of the latest registration of that name, which is
\* the one a dispatch runs; each registration appends one definition and
\* keeps the earlier ones, also for a name that is already registered;
\* try_as_tools is the local definitions in registration order followed by
\* the accepted MCP descriptors in the order they were added.
C39_Registrations == []C39_State /\ [][C39_Step]_vars

\* "echo" was registered twice and an MCP descriptor added: try_as_tools
\* holds the function name "echo" twice before the descriptor, and a
\* dispatch of "echo" ran the second handler.
C39_Witness ==
  /\ Len(defs) = 2
  /\ defs[1].name = "echo" /\ defs[2].name = "echo"
  /\ Len(try_as_tools) = 3
  /\ try_as_tools[1] = FunctionTool("echo")
  /\ try_as_tools[2] = FunctionTool("echo")
  /\ try_as_tools[3].type = "mcp"
  /\ \E i \in 1..Len(dispatched) :
       /\ dispatched[i].call.name = "echo"
       /\ dispatched[i].handler = 2
       /\ dispatched[i].invoked

\* The audio deltas handled so far that passed the gate with a payload
\* that is not valid base64.
BadDeltas ==
  {n \in Handled :
     /\ arrived[n].evt.type = "ResponseOutputAudioDelta"
     /\ PassesGate(n)
     /\ ~B64Decode(arrived[n].evt.delta).ok}

\* C40: an audio delta that passes the response-id gate and whose payload
\* does not decode puts exactly one DecodeError item on the voice channel
\* and nothing on the audio channel, is delivered once on the coarse stream
\* with its payload as it came, and leaves the actor at its select!, the
\* active id unchanged.
C40_BadAudio ==
  \A n \in BadDeltas :
    Finished(n) =>
      /\ ItemsOf("voice", n) = << [kind |-> "DecodeError"] >>
      /\ ItemsOf("audio", n) = <<>>
      /\ ItemsOf("event", n) =
           << [kind |-> "AudioDelta",
               response_id |-> arrived[n].evt.response_id,
               item_id |-> arrived[n].evt.item_id,
               output_index |-> arrived[n].evt.output_index,
               content_index |-> arrived[n].evt.content_index,
               delta |-> arrived[n].evt.delta] >>
      /\ pc # "exited"
      /\ n = Len(arrived) => pc = "select" /\ active_response_id = arrived[n].pre

\* resp_1 is active, a delta for it carries a payload with padding in the
\* middle, and the good delta that follows is decoded and delivered.
C40_Witness ==
  /\ Len(arrived) = 3
  /\ arrived[1].evt = ResponseCreated("resp_1")
  /\ arrived[2].evt = AudioDelta("resp_1", BadAudio)
  /\ arrived[3].evt = AudioDelta("resp_1", GoodAudio)
  /\ 2 \in BadDeltas
  /\ ItemsOf("voice", 2) = << [kind |-> "DecodeError"] >>
  /\ Len(ItemsOf("audio", 3)) = 1
  /\ Len(sent["audio"]) = 1

====
